---- MODULE Spec2Model ----
(***************************************************************************)
(* RRust: a reversible DSL embedded in Rust.                               *)
(*                                                                         *)
(* The model has three layers, each translated from the source:            *)
(*   1. the syntax tree the procedural macros work on (syn's Stmt / Expr), *)
(*   2. the two transformers forward! (rrust-macro/src/forward.rs) and     *)
(*      reverse! (rrust-macro/src/reverse.rs) and the macro_rules macros   *)
(*      rfn!, rif!, rloop!, delocal! (rrust/src/lib.rs) that expand into   *)
(*      plain Rust,                                                        *)
(*   3. a small-step machine that runs the expanded Rust on a store.       *)
(***************************************************************************)
EXTENDS Integers, Sequences, FiniteSets, TLC

VARIABLES
  src,      \* the routine: its kind (rfn! item or plain fn), parameters, $code
  phase,    \* "source" | "rejected" | "compiled"  (run-time machine)
  prog,     \* result of rfn!: the expanded forward and backwards functions
  calls,    \* the entry points the caller has invoked so far, in order
  s0,       \* the parameters' values before the first call
  store,    \* storage: cell address -> value
  envs,     \* stack of lexical environments: name -> cell address
  stack,    \* the statements still to run (continuation of the current call)
  status,   \* "idle" | "running" | "done" | a panic kind
  tsrc,     \* transform-only machine: the block handed to the transformers
  fout,     \* transform-only machine: result of forward! on tsrc
  rout,     \* transform-only machine: result of reverse! on tsrc
  trail     \* observation: per call, the branches taken and loop bodies entered

vars == <<src, phase, prog, calls, s0, store, envs, stack, status, tsrc, fout, rout, trail>>

(***************************************************************************)
(* Bounds of the model.                                                    *)
(***************************************************************************)
\* Integers are kept modulo 2^bits (wrapping arithmetic of a machine word);
\* Width is the number of bits when every value of the caller's variables is
\* tried.
Width == 2
\* Longest record of control decisions kept for one call.
MaxTrail == 12
\* Longest statement list built from the core statements (TCore) of the blocks
\* given to the transformers.
MaxLen == 3

\* Length of the slice a caller passes.
ArrLen == 2
Modulus == 2 ^ src.bits
Values == 0 .. (2 ^ Width - 1)

(***************************************************************************)
(* Syntax tree.  Pure expressions.                                         *)
(***************************************************************************)
Lit(v) == [e |-> "lit", v |-> v]
\* A place: a local `i` or the dereference `*x` of a reference parameter.
Var(n) == [e |-> "var", n |-> n]
\* The place arr[i] of a slice parameter.
Index(n, i) == [e |-> "index", n |-> n, i |-> i]
Bin(op, l, r) == [e |-> "bin", op |-> op, l |-> l, r |-> r]
Not(x) == [e |-> "not", x |-> x]
\* core::ptr::eq(&(l), &(r))
PtrEq(l, r) == [e |-> "ptr_eq", l |-> l, r |-> r]

(***************************************************************************)
(* Syntax tree.  Statements (syn::Stmt::Local, and syn::Expr in statement  *)
(* position; Stmt::Expr and Stmt::Semi are treated alike by both           *)
(* transformers and are one form here).                                    *)
(***************************************************************************)
\* let <pat> = <init>;   init is an Option: <<>> or <<expr>>
Local(n, init) == [k |-> "local", pat |-> n, init |-> init]
\* <path>!(<tokens>)
Macro(path, tokens) == [k |-> "macro", path |-> path, tokens |-> tokens]
\* <left> <op> <right>
AssignOp(left, op, right) == [k |-> "assignop", left |-> left, op |-> op, right |-> right]
\* <func path>(<args>)
Call(func, args) == [k |-> "call", func |-> func, args |-> args]
\* { <stmts> }
Block(stmts) == [k |-> "block", stmts |-> stmts]
\* any other syn::Expr variant, by its name
Other(variant) == [k |-> "other", variant |-> variant]
\* syn::Stmt::Item
Item == [k |-> "item"]
\* Expr::Let: let mut <name> = <val>
LetE(name, val) == [k |-> "let", name |-> name, val |-> val]

\* The dialect's statements written with the macros of rrust/src/lib.rs.
Delocal(n, val) == Macro(<<"delocal">>, <<Var(n), val>>)
Rif(before, then, else, after) == Macro(<<"rif">>, <<before, then, else, after>>)
Rif3(before, then, after) == Macro(<<"rif">>, <<before, then, after>>)
Rloop(from, do, loop, until) == Macro(<<"rloop">>, <<from, do, loop, until>>)
Rloop3(from, loop, until) == Macro(<<"rloop">>, <<from, loop, until>>)

(***************************************************************************)
(* Plain Rust produced by macro expansion.                                 *)
(***************************************************************************)
\* `role` records which macro (and which of its parameters) a statement was
\* expanded from; it has no effect on execution.
\* if <cond> { then } [else { els }]     els is an Option of a block
IfStmt(cond, then, els, role) == [k |-> "if", cond |-> cond, then |-> then, els |-> els, role |-> role]
\* while <cond> { body }
WhileStmt(cond, body, role) == [k |-> "while", cond |-> cond, body |-> body, role |-> role]
\* assert!(<cond>)
AssertStmt(cond, role) == [k |-> "assert", cond |-> cond, role |-> role]
\* panic!(..)
PanicStmt(msg) == [k |-> "panic", msg |-> msg]
\* drop(<name>)
DropStmt(n) == [k |-> "drop", name |-> n]

(***************************************************************************)
(* Results of a transformer or of a macro expansion: either an output or   *)
(* the compile-time failure that ended it.  The failure kinds:             *)
(*   "UnknownLocal"          panic "Attempt to delocal a non local variable"*)
(*   "UnretiredLocals"       panic "The following local(s) need to be      *)
(*                           consumed by delocal!" (names: the list shown) *)
(*   "NonInvertibleOperator" panic "disallowed binary operator."           *)
(*   "UnsupportedConstruct"  panic "Not yet implemented" / todo!()         *)
(*   "UnexpectedToken"       syn: tokens left after the parsed block       *)
(*   "Unwrap"                Option::unwrap on None                        *)
(***************************************************************************)
Ok(out) == [err |-> "none", names |-> <<>>, out |-> out]
Err(kind) == [err |-> kind, names |-> <<>>, out |-> <<>>]
ErrNames(kind, names) == [err |-> kind, names |-> names, out |-> <<>>]
IsOk(r) == r.err = "none"

(***************************************************************************)
(* rrust-macro/src/utils.rs                                                *)
(***************************************************************************)
\* syn::Path::get_ident: Some(ident) only for a path of one plain segment.
get_ident(path) == IF Len(path) = 1 THEN <<path[1]>> ELSE <<>>

local_ident(local) == local.pat

macro_ident_expr(expr) == IF expr.k = "macro" THEN get_ident(expr.path) ELSE <<>>

\* The first macro argument, when it is a plain identifier.
delocal_ident(expr) ==
  IF Len(expr.tokens) > 0 /\ expr.tokens[1].e = "var"
    THEN <<expr.tokens[1].n>>
    ELSE <<>>

(***************************************************************************)
(* Vec helpers used by both visitors.                                      *)
(***************************************************************************)
\* Iterator::position: index of the first element equal to x, 0 for None.
position(list, x) ==
  IF \E i \in 1 .. Len(list) : list[i] = x
    THEN CHOOSE i \in 1 .. Len(list) : list[i] = x /\ \A j \in 1 .. (i - 1) : list[j] # x
    ELSE 0

\* Vec::remove(index)
remove(list, index) == SubSeq(list, 1, index - 1) \o SubSeq(list, index + 1, Len(list))

\* Vec::reverse
RECURSIVE reverse_vec(_)
reverse_vec(s) == IF s = <<>> THEN <<>> ELSE Append(reverse_vec(Tail(s)), Head(s))

(***************************************************************************)
(* syn::parse_macro_input! (forward.rs:8, reverse.rs:8): the whole input   *)
(* must parse as one syn::Block; tokens left over are the compile error    *)
(* "unexpected token" and the macro produces no program.                   *)
(***************************************************************************)
SemiTok == [k |-> "semi"]

parse_macro_input(input) ==
  IF Len(input) = 1 /\ input[1].k = "block" THEN Ok(input[1]) ELSE Err("UnexpectedToken")

\* What a visitor method hands back: the failure (if it panicked), the
\* visitor's delocal_list afterwards and the rewritten statement.
VRes(err, list, out) == [err |-> err, names |-> <<>>, list |-> list, out |-> out]

\* A macro token that is not an expression (the operator in stringify!).
Tok(t) == [e |-> "tok", t |-> t]

(***************************************************************************)
(* rrust-macro/src/forward.rs                                              *)
(***************************************************************************)
\* The runtime alias guard both transformers put ahead of an assignment.
AliasMsg == "Lefthand and righthand are aliases of each other"

alias_cmp(left, right) ==
  IfStmt(PtrEq(left, right), Block(<<PanicStmt(AliasMsg)>>), <<>>, "alias")

fwd_expr_mut_backwards(expr) ==
  CASE expr.k = "assignop" ->
         Block(<<Macro(<<"stringify">>, <<expr.left, Tok(expr.op), expr.right>>),
                 alias_cmp(expr.left, expr.right),
                 AssignOp(expr.left, expr.op, expr.right)>>)
    [] expr.k = "call" /\ expr.func[Len(expr.func)] = "forward" ->
         [expr EXCEPT !.func = Append(SubSeq(expr.func, 1, Len(expr.func) - 1), "backwards")]
    [] OTHER -> expr

fwd_expr_mut_noguard(expr) ==
  IF expr.k = "assignop"
    THEN Block(<<Macro(<<"stringify">>, <<expr.left, Tok(expr.op), expr.right>>),
                 AssignOp(expr.left, expr.op, expr.right)>>)
    ELSE expr

fwd_expr(expr) ==
  IF expr.k = "assignop"
    THEN Block(<<Macro(<<"stringify">>, <<expr.left, Tok(expr.op), expr.right>>),
                 alias_cmp(expr.left, expr.right),
                 AssignOp(expr.left, expr.op, expr.right)>>)
    ELSE expr

F_local_mut_uninit(list, local) ==
  VRes("none", Append(list, local_ident(local)), Local(local.pat, <<>>))

F_local(list, local) == VRes("none", Append(list, local_ident(local)), local)

F_delocal_mut_lenient(list, expr) ==
  IF macro_ident_expr(expr) = <<"delocal">>
    THEN LET di == delocal_ident(expr)
         IN IF di = <<>>
              THEN VRes("Unwrap", list, expr)
              ELSE LET index == position(list, di[1])
                   IN IF index # 0
                        THEN VRes("none", remove(list, index), expr)
                        ELSE VRes("none", list, expr)
    ELSE VRes("none", list, expr)

F_delocal(list, expr) ==
  IF macro_ident_expr(expr) = <<"delocal">>
    THEN LET di == delocal_ident(expr)
         IN IF di = <<>>
              THEN VRes("Unwrap", list, expr)
              ELSE LET index == position(list, di[1])
                   IN IF index # 0
                        THEN VRes("none", remove(list, index), expr)
                        ELSE VRes("UnknownLocal", list, expr)
    ELSE VRes("none", list, expr)

F_delocal_check(list) ==
  IF list # <<>> THEN ErrNames("UnretiredLocals", list) ELSE Ok(<<>>)

RECURSIVE F_fold_block(_)
RECURSIVE F_fold_stmts(_, _, _)

\* syn::fold::fold_expr as FVisitor inherits it: it descends into a nested
\* block through fold_block; the tokens of a macro call are opaque to it.
F_fold_expr_mut_opaque(expr) ==
  Ok(expr)

F_fold_expr(expr) == IF expr.k = "block" THEN F_fold_block(expr) ELSE Ok(expr)

\* FVisitor::expr and FVisitor::semi
F_expr(list, expr) ==
  LET d == F_delocal(list, expr)
  IN IF d.err # "none"
       THEN d
       ELSE LET f == F_fold_expr(expr)
            IN IF ~IsOk(f)
                 THEN [err |-> f.err, names |-> f.names, list |-> d.list, out |-> expr]
                 ELSE VRes("none", d.list, fwd_expr(f.out))

fwd_stmt(list, node) ==
  CASE node.k = "local" -> F_local(list, node)
    [] node.k = "item" -> VRes("UnsupportedConstruct", list, node)
    [] OTHER -> F_expr(list, node)

\* block.stmts.iter_mut().for_each(|n| *n = block_visitor.fold_stmt(n.clone()))
F_fold_stmts(stmts, list, done) ==
  IF stmts = <<>>
    THEN VRes("none", list, done)
    ELSE LET r == fwd_stmt(list, Head(stmts))
         IN IF r.err # "none"
              THEN r
              ELSE F_fold_stmts(Tail(stmts), r.list, Append(done, r.out))

\* FVisitor::fold_block: a new visitor (an empty delocal_list) per block.
F_fold_block(block) ==
  LET r == F_fold_stmts(block.stmts, <<>>, <<>>)
  IN IF r.err # "none"
       THEN ErrNames(r.err, r.names)
       ELSE LET c == F_delocal_check(r.list)
            IN IF ~IsOk(c) THEN c ELSE Ok(Block(r.out))

\* forward!: the folded block, surrounded by one more pair of braces.
forward_impl(input) ==
  LET p == parse_macro_input(input)
  IN IF ~IsOk(p)
       THEN p
       ELSE LET b == F_fold_block(p.out)
            IN IF ~IsOk(b)
                 THEN b
                 ELSE LET c == F_delocal_check(<<>>)
                      IN IF ~IsOk(c) THEN c ELSE Ok(Block(<<b.out>>))

(***************************************************************************)
(* rrust-macro/src/reverse.rs                                              *)
(***************************************************************************)
\* The compound and binary operators of syn::BinOp, as written.
BinOps ==
  {"+", "-", "*", "/", "%", "&&", "||", "^", "&", "|", "<<", ">>",
   "==", "<", "<=", "!=", ">=", ">",
   "+=", "-=", "*=", "/=", "%=", "^=", "&=", "|=", "<<=", ">>="}

\* The compound-assignment operators among them (ExprAssignOp carries one).
AssignOps == {"+=", "-=", "*=", "/=", "%=", "^=", "&=", "|=", "<<=", ">>="}

reverse_bin_op_mut_keep(bin_op) ==
  CASE bin_op = "+=" -> Ok("+=")
    [] bin_op = "-=" -> Ok("+=")
    [] bin_op = "^=" -> Ok("^=")
    [] OTHER -> Ok(bin_op)

reverse_bin_op(bin_op) ==
  CASE bin_op = "+=" -> Ok("-=")
    [] bin_op = "-=" -> Ok("+=")
    [] bin_op = "^=" -> Ok("^=")
    [] OTHER -> Err("NonInvertibleOperator")

retarget_mut_keep(func) ==
  func

\* The last path segment `forward` is replaced by `backwards`.
retarget(func) ==
  IF Len(func) > 0 /\ func[Len(func)] = "forward"
    THEN Append(SubSeq(func, 1, Len(func) - 1), "backwards")
    ELSE func

reverse_expr(e) ==
  CASE e.k = "assignop" ->
         LET o == reverse_bin_op(e.op)
         IN IF ~IsOk(o)
              THEN o
              ELSE Ok(Block(<<alias_cmp(e.left, e.right), AssignOp(e.left, o.out, e.right)>>))
    [] e.k = "block" -> Ok(e)
    [] e.k = "call" -> Ok(Call(retarget(e.func), e.args))
    [] e.k = "macro" ->
         LET i == get_ident(e.path)
         IN IF i = <<"rif">>
              THEN Ok(Macro(<<"::rrust", "_reverse_rif">>, e.tokens))
              ELSE IF i = <<"rloop">>
                     THEN Ok(Macro(<<"::rrust", "_reverse_rloop">>, e.tokens))
                     ELSE Ok(e)
    [] OTHER -> Err("UnsupportedConstruct")

delocal_val_mut_retire(expr) ==
  Macro(<<"::rrust", "delocal">>, expr.tokens)

\* let mut <first token> = <last token>
delocal_val(expr) == LetE(expr.tokens[1], expr.tokens[Len(expr.tokens)])

R_local_mut_keep(list, local) ==
  IF local.init = <<>>
    THEN VRes("Unwrap", list, local)
    ELSE VRes("none", Append(list, local_ident(local)), local)

R_local(list, local) ==
  IF local.init = <<>>
    THEN VRes("Unwrap", list, local)
    ELSE VRes("none", Append(list, local_ident(local)),
              Macro(<<"::rrust", "delocal">>, <<Var(local_ident(local)), local.init[1]>>))

\* RVisitor::delocal; `b` is the flag of the returned pair.
R_delocal(list, expr) ==
  IF macro_ident_expr(expr) = <<"delocal">>
    THEN LET di == delocal_ident(expr)
         IN IF di = <<>>
              THEN [err |-> "Unwrap", names |-> <<>>, list |-> list, b |-> FALSE, out |-> expr]
              ELSE LET index == position(list, di[1])
                   IN IF index # 0
                        THEN [err |-> "none", names |-> <<>>, list |-> remove(list, index),
                              b |-> TRUE, out |-> delocal_val(expr)]
                        ELSE [err |-> "UnknownLocal", names |-> <<>>, list |-> list,
                              b |-> FALSE, out |-> expr]
    ELSE [err |-> "none", names |-> <<>>, list |-> list, b |-> FALSE, out |-> expr]

R_delocal_check_mut_skip(list) ==
  Ok(<<>>)

R_delocal_check(list) ==
  IF list # <<>> THEN ErrNames("UnretiredLocals", list) ELSE Ok(<<>>)

RECURSIVE R_fold_block(_)
RECURSIVE R_fold_stmts(_, _, _)

\* syn::fold::fold_expr as RVisitor inherits it.
R_fold_expr(expr) == IF expr.k = "block" THEN R_fold_block(expr) ELSE Ok(expr)

\* RVisitor::expr and RVisitor::semi
R_expr(list, expr) ==
  LET d == R_delocal(list, expr)
  IN IF d.err # "none"
       THEN VRes(d.err, d.list, expr)
       ELSE IF d.b
              THEN VRes("none", d.list, d.out)
              ELSE LET f == R_fold_expr(expr)
                   IN IF ~IsOk(f)
                        THEN [err |-> f.err, names |-> f.names, list |-> d.list, out |-> expr]
                        ELSE LET r == reverse_expr(f.out)
                             IN IF ~IsOk(r)
                                  THEN VRes(r.err, d.list, expr)
                                  ELSE VRes("none", d.list, r.out)

reverse_stmt(list, node) ==
  CASE node.k = "local" -> R_local(list, node)
    [] node.k = "item" -> VRes("UnsupportedConstruct", list, node)
    [] OTHER -> R_expr(list, node)

R_fold_stmts(stmts, list, done) ==
  IF stmts = <<>>
    THEN VRes("none", list, done)
    ELSE LET r == reverse_stmt(list, Head(stmts))
         IN IF r.err # "none"
              THEN r
              ELSE R_fold_stmts(Tail(stmts), r.list, Append(done, r.out))

R_fold_block_mut_noreverse(block) ==
  LET r == R_fold_stmts(block.stmts, <<>>, <<>>)
  IN IF r.err # "none"
       THEN ErrNames(r.err, r.names)
       ELSE LET c == R_delocal_check(r.list)
            IN IF ~IsOk(c) THEN c ELSE Ok(Block(r.out))

\* RVisitor::fold_block: rewrite each statement, reverse the list, then check
\* that every local was consumed.
R_fold_block(block) ==
  LET r == R_fold_stmts(block.stmts, <<>>, <<>>)
  IN IF r.err # "none"
       THEN ErrNames(r.err, r.names)
       ELSE LET c == R_delocal_check(r.list)
            IN IF ~IsOk(c) THEN c ELSE Ok(Block(reverse_vec(r.out)))

\* reverse!
reverse_impl(input) ==
  LET p == parse_macro_input(input)
  IN IF ~IsOk(p)
       THEN p
       ELSE LET b == R_fold_block(p.out)
            IN IF ~IsOk(b)
                 THEN b
                 ELSE LET c == R_delocal_check(<<>>)
                      IN IF ~IsOk(c) THEN c ELSE Ok(Block(<<b.out>>))

(***************************************************************************)
(* rrust/src/lib.rs: the macro_rules macros.  Each is a template: its      *)
(* output still holds the nested ::rrust::forward! / ::rrust::reverse!     *)
(* calls, which the compiler expands in turn (expand_stmt below).          *)
(***************************************************************************)
\* ::rrust::forward! { <input> }  and  ::rrust::reverse! { <input> }
ForwardMac(input) == Macro(<<"::rrust", "forward">>, input)
ReverseMac(input) == Macro(<<"::rrust", "reverse">>, input)

DelocalMsg == "Delocal failed"

delocal_mut_eq(tokens) ==
  IF Len(tokens) = 2
    THEN Ok(<<IfStmt(Bin("==", tokens[1], tokens[2]), Block(<<PanicStmt(DelocalMsg)>>), <<>>,
                     "delocal"),
              DropStmt(tokens[1].n)>>)
    ELSE Err("NoRulesExpected")

\* delocal!($name, $e)
delocal(tokens) ==
  IF Len(tokens) = 2
    THEN Ok(<<IfStmt(Bin("!=", tokens[1], tokens[2]), Block(<<PanicStmt(DelocalMsg)>>), <<>>,
                     "delocal"),
              DropStmt(tokens[1].n)>>)
    ELSE Err("NoRulesExpected")

rif_mut_else_after(tokens) ==
  CASE Len(tokens) = 4 ->
         Ok(<<IfStmt(tokens[1],
                Block(<<ForwardMac(<<tokens[2]>>), AssertStmt(tokens[4], "after")>>),
                <<Block(<<ForwardMac(<<tokens[3]>>), AssertStmt(tokens[4], "after")>>)>>,
                "rif")>>)
    [] Len(tokens) = 3 ->
         Ok(<<IfStmt(tokens[1],
                Block(<<ForwardMac(<<tokens[2]>>), AssertStmt(tokens[3], "after")>>),
                <<Block(<<AssertStmt(tokens[3], "after")>>)>>,
                "rif")>>)
    [] OTHER -> Err("NoRulesExpected")

\* rif!($before, $then, $else, $after) and rif!($before, $then, $after)
rif(tokens) ==
  CASE Len(tokens) = 4 ->
         LET before == tokens[1]
             then == tokens[2]
             else == tokens[3]
             after == tokens[4]
         IN Ok(<<IfStmt(before,
                   Block(<<ForwardMac(<<then>>), AssertStmt(after, "after")>>),
                   <<Block(<<ForwardMac(<<else>>), AssertStmt(Not(after), "not after")>>)>>,
                   "rif")>>)
    [] Len(tokens) = 3 ->
         LET before == tokens[1]
             then == tokens[2]
             after == tokens[3]
         IN Ok(<<IfStmt(before,
                   Block(<<ForwardMac(<<then>>), AssertStmt(after, "after")>>),
                   <<Block(<<AssertStmt(Not(after), "not after")>>)>>,
                   "rif")>>)
    [] OTHER -> Err("NoRulesExpected")

reverse_rif_mut_on_before(tokens) ==
  CASE Len(tokens) = 4 ->
         Ok(<<IfStmt(tokens[1],
                Block(<<ReverseMac(<<tokens[2]>>), AssertStmt(tokens[1], "before")>>),
                <<Block(<<ReverseMac(<<tokens[3]>>), AssertStmt(Not(tokens[1]), "not before")>>)>>,
                "_reverse_rif")>>)
    [] Len(tokens) = 3 ->
         Ok(<<IfStmt(tokens[1],
                Block(<<ReverseMac(<<tokens[2]>>), AssertStmt(tokens[1], "before")>>),
                <<Block(<<AssertStmt(Not(tokens[1]), "not before")>>)>>,
                "_reverse_rif")>>)
    [] OTHER -> Err("NoRulesExpected")

\* _reverse_rif!
reverse_rif(tokens) ==
  CASE Len(tokens) = 4 ->
         LET before == tokens[1]
             then == tokens[2]
             else == tokens[3]
             after == tokens[4]
         IN Ok(<<IfStmt(after,
                   Block(<<ReverseMac(<<then>>), AssertStmt(before, "before")>>),
                   <<Block(<<ReverseMac(<<else>>), AssertStmt(Not(before), "not before")>>)>>,
                   "_reverse_rif")>>)
    [] Len(tokens) = 3 ->
         LET before == tokens[1]
             then == tokens[2]
             after == tokens[3]
         IN Ok(<<IfStmt(after,
                   Block(<<ReverseMac(<<then>>), AssertStmt(before, "before")>>),
                   <<Block(<<AssertStmt(Not(before), "not before")>>)>>,
                   "_reverse_rif")>>)
    [] OTHER -> Err("NoRulesExpected")

rloop_mut_do_once(tokens) ==
  CASE Len(tokens) = 4 ->
         Ok(<<AssertStmt(tokens[1], "from"),
              ForwardMac(<<tokens[2]>>),
              WhileStmt(Not(tokens[4]),
                Block(<<ForwardMac(<<tokens[3]>>), AssertStmt(Not(tokens[1]), "not from")>>),
                "rloop")>>)
    [] Len(tokens) = 3 ->
         Ok(<<AssertStmt(tokens[1], "from"),
              WhileStmt(Not(tokens[3]),
                Block(<<ForwardMac(<<tokens[2]>>), AssertStmt(Not(tokens[1]), "not from")>>),
                "rloop")>>)
    [] OTHER -> Err("NoRulesExpected")

\* rloop!($from, $do, $loop, $until) and rloop!($from, $loop, $until)
rloop(tokens) ==
  CASE Len(tokens) = 4 ->
         LET from == tokens[1]
             do == tokens[2]
             loop == tokens[3]
             until == tokens[4]
         IN Ok(<<AssertStmt(from, "from"),
                 ForwardMac(<<do>>),
                 WhileStmt(Not(until),
                   Block(<<ForwardMac(<<loop>>), AssertStmt(Not(from), "not from"),
                           ForwardMac(<<do>>)>>),
                   "rloop")>>)
    [] Len(tokens) = 3 ->
         LET from == tokens[1]
             loop == tokens[2]
             until == tokens[3]
         IN Ok(<<AssertStmt(from, "from"),
                 WhileStmt(Not(until),
                   Block(<<ForwardMac(<<loop>>), AssertStmt(Not(from), "not from")>>),
                   "rloop")>>)
    [] OTHER -> Err("NoRulesExpected")

\* _reverse_rloop!  The four-argument arm writes `$do;` and `$loop;` inside
\* reverse! { .. }: the block followed by a semicolon.
reverse_rloop(tokens) ==
  CASE Len(tokens) = 4 ->
         LET from == tokens[1]
             do == tokens[2]
             loop == tokens[3]
             until == tokens[4]
         IN Ok(<<AssertStmt(until, "until"),
                 ReverseMac(<<do, SemiTok>>),
                 WhileStmt(Not(from),
                   Block(<<ReverseMac(<<loop, SemiTok>>), AssertStmt(Not(until), "not until"),
                           ReverseMac(<<do, SemiTok>>)>>),
                   "_reverse_rloop")>>)
    [] Len(tokens) = 3 ->
         LET from == tokens[1]
             loop == tokens[2]
             until == tokens[3]
         IN Ok(<<AssertStmt(until, "until"),
                 WhileStmt(Not(from),
                   Block(<<ReverseMac(<<loop>>), AssertStmt(Not(until), "not until")>>),
                   "_reverse_rloop")>>)
    [] OTHER -> Err("NoRulesExpected")

\* rfn!($name, ($params), $code): struct $name with fn forward and fn
\* backwards over the same parameters and the same $code.
rfn(name, params, code) ==
  [name |-> name, params |-> params,
   forward |-> <<ForwardMac(<<code>>)>>,
   backwards |-> <<ReverseMac(<<code>>)>>]

(***************************************************************************)
(* Macro expansion as the compiler does it, before anything runs: every    *)
(* macro call is replaced by its output and the output expanded again.  A  *)
(* failure anywhere is a compile error and nothing is produced.            *)
(* expand_stmt yields the statements that take the place of one statement. *)
(***************************************************************************)
RECURSIVE expand_stmt(_)
RECURSIVE expand_stmts(_, _)

\* ::rrust::forward! { .. } as a statement: the block that forward! returns
forward_output(f) == IF IsOk(f) THEN Ok(<<f.out>>) ELSE f

\* Macro name resolution: by the last path segment (`use rrust::{..}` brings
\* the public macros into scope, the generated code uses ::rrust:: paths).
macro_output(m) ==
  LET name == m.path[Len(m.path)]
  IN CASE name = "forward" -> forward_output(forward_impl(m.tokens))
       [] name = "reverse" -> forward_output(reverse_impl(m.tokens))
       [] name = "delocal" -> delocal(m.tokens)
       [] name = "rif" -> rif(m.tokens)
       [] name = "_reverse_rif" -> reverse_rif(m.tokens)
       [] name = "rloop" -> rloop(m.tokens)
       [] name = "_reverse_rloop" -> reverse_rloop(m.tokens)
       [] name = "stringify" -> Ok(<<Other("Lit")>>)
       [] OTHER -> Err("CannotFindMacro")

\* The statements nested in a statement, and the statement rebuilt around
\* their expansion.
nested_stmts(s) ==
  CASE s.k = "block" -> s.stmts
    [] s.k = "if" -> <<s.then>> \o s.els
    [] s.k = "while" -> <<s.body>>
    [] OTHER -> <<>>

rebuild(s, r) ==
  IF ~IsOk(r)
    THEN r
    ELSE CASE s.k = "block" -> Ok(<<Block(r.out)>>)
           [] s.k = "if" -> Ok(<<IfStmt(s.cond, r.out[1], Tail(r.out), s.role)>>)
           [] s.k = "while" -> Ok(<<WhileStmt(s.cond, r.out[1], s.role)>>)
           [] OTHER -> Ok(<<s>>)

\* the output of a macro call is expanded again
expand_output(m) == IF ~IsOk(m) THEN m ELSE expand_stmts(m.out, <<>>)

expand_rest(r, rest, done) == IF ~IsOk(r) THEN r ELSE expand_stmts(rest, done \o r.out)

expand_stmts(stmts, done) ==
  IF stmts = <<>> THEN Ok(done) ELSE expand_rest(expand_stmt(Head(stmts)), Tail(stmts), done)

expand_stmt(s) ==
  IF s.k = "macro"
    THEN expand_output(macro_output(s))
    ELSE rebuild(s, expand_stmts(nested_stmts(s), <<>>))

\* The two functions of an rfn! item, fully expanded.
compiled(item, f, b) ==
  IF ~IsOk(f)
    THEN f
    ELSE IF ~IsOk(b)
           THEN b
           ELSE Ok([name |-> item.name, params |-> item.params,
                    forward |-> f.out, backwards |-> b.out])

compile(item) ==
  compiled(item, expand_stmts(item.forward, <<>>), expand_stmts(item.backwards, <<>>))

\* The rfn! items of one crate: the crate compiles when every item does, and
\* a call in the body of one item can name an entry point of any of them.
\* The first item is the routine the caller calls.
RECURSIVE compile_items(_, _)
compile_item(r, rest, done) ==
  IF ~IsOk(r) THEN r ELSE compile_items(rest, Append(done, r.out))

compile_items(items, done) ==
  IF items = <<>>
    THEN Ok(done)
    ELSE compile_item(compile(rfn(Head(items).name, Head(items).params, Head(items).code)),
                      Tail(items), done)

link(r) ==
  IF ~IsOk(r)
    THEN r
    ELSE Ok([name |-> r.out[1].name, params |-> r.out[1].params,
             forward |-> r.out[1].forward, backwards |-> r.out[1].backwards,
             items |-> r.out])

compile_crate(items) ==
  link(compile_items(items, <<>>))

(***************************************************************************)
(* Execution of the expanded Rust.                                         *)
(*                                                                         *)
(* store is the storage in allocation order: the caller's variables first, *)
(* then the locals alive in the running call.  An environment maps a name  *)
(* to the address `a` of its cell: a parameter `x: &mut T` to the cell it  *)
(* borrows, a local to its own cell; `len` is the length of a slice and 0  *)
(* for an integer.                                                         *)
(***************************************************************************)
RECURSIVE bitxor(_, _)
bitxor(a, b) ==
  IF a = 0 /\ b = 0 THEN 0 ELSE ((a + b) % 2) + 2 * bitxor(a \div 2, b \div 2)

wrap(v) == v % Modulus

RECURSIVE Eval(_, _, _)
Eval(x, env, st) ==
  CASE x.e = "lit" -> wrap(x.v)
    [] x.e = "var" -> st[env[x.n].a]
    [] x.e = "index" -> st[env[x.n].a + Eval(x.i, env, st)]
    [] x.e = "not" -> ~Eval(x.x, env, st)
    [] x.e = "ptr_eq" ->
         \* a place has the address of its cell; any other expression is a
         \* temporary of its own
         LET addr(p) == IF p.e = "var" THEN env[p.n].a ELSE env[p.n].a + Eval(p.i, env, st)
         IN /\ x.l.e \in {"var", "index"}
            /\ x.r.e \in {"var", "index"}
            /\ addr(x.l) = addr(x.r)
    [] x.e = "bin" ->
         LET l == Eval(x.l, env, st)
             r == Eval(x.r, env, st)
         IN CASE x.op = "+" -> wrap(l + r)
              [] x.op = "-" -> wrap(l - r)
              [] x.op = "^" -> bitxor(l, r)
              [] x.op = "==" -> l = r
              [] x.op = "!=" -> l # r
              [] x.op = "&&" -> l /\ r

RECURSIVE InBounds_mut_store_end(_, _, _)
InBounds_mut_store_end(x, env, st) ==
  CASE x.e = "index" ->
         InBounds_mut_store_end(x.i, env, st) /\ env[x.n].a + Eval(x.i, env, st) <= Len(st)
    [] x.e = "not" -> InBounds_mut_store_end(x.x, env, st)
    [] x.e \in {"bin", "ptr_eq"} ->
         InBounds_mut_store_end(x.l, env, st) /\ InBounds_mut_store_end(x.r, env, st)
    [] OTHER -> TRUE

\* Every slice index the expression evaluates is within the slice; an index
\* outside it panics.
RECURSIVE InBounds(_, _, _)
InBounds(x, env, st) ==
  CASE x.e = "index" -> InBounds(x.i, env, st) /\ Eval(x.i, env, st) < env[x.n].len
    [] x.e = "not" -> InBounds(x.x, env, st)
    [] x.e \in {"bin", "ptr_eq"} -> InBounds(x.l, env, st) /\ InBounds(x.r, env, st)
    [] OTHER -> TRUE

\* <old> <op> <rhs>
assign_op(op, old, rhs) ==
  CASE op = "+=" -> wrap(old + rhs)
    [] op = "-=" -> wrap(old - rhs)
    [] op = "^=" -> bitxor(old, rhs)

\* The address of a place.
Addr(p, env, st) == IF p.e = "var" THEN env[p.n].a ELSE env[p.n].a + Eval(p.i, env, st)

\* The store after the assignment <left> <op> <right>.
Assigned(s, env, st) ==
  [st EXCEPT ![Addr(s.left, env, st)] =
     assign_op(s.op, st[Addr(s.left, env, st)], Eval(s.right, env, st))]

EndScope(len) == [k |-> "endscope", len |-> len]

\* How a panic message is named in the specification.
panic_kind(msg) ==
  CASE msg = AliasMsg -> "AliasViolation"
    [] msg = DelocalMsg -> "RetireMismatch"
    [] OTHER -> "Panic"

Errors == {"AliasViolation", "RetireMismatch", "GuardViolation", "Panic"}

\* The caller's variables, one per parameter of the routine: lens[i] is 0 for
\* an integer and the length of the array for a slice.
Cells(len) == IF len = 0 THEN 1 ELSE len
RECURSIVE Base(_, _)
Base(lens, i) == IF i = 1 THEN 1 ELSE Base(lens, i - 1) + Cells(lens[i - 1])
Bind(params, lens) ==
  [n \in {params[i] : i \in 1 .. Len(params)} |->
     LET i == CHOOSE j \in 1 .. Len(params) : params[j] = n
     IN [a |-> Base(lens, i), len |-> lens[i]]]

\* `a` and `b` are integers, `arr` is a slice of ArrLen integers.
Params == <<"a", "b", "arr">>
Lens == <<0, 0, ArrLen>>
NParams == Base(src.lens, Len(src.lens) + 1) - 1
param_env == Bind(src.params, src.lens)

Running == status = "running" /\ stack # <<>>
Top == Head(stack)
Env == Head(envs)

Unwind_mut_rollback(kind) ==
  /\ status' = kind
  /\ stack' = <<>>
  /\ envs' = <<>>
  /\ store' = s0

\* A panic unwinds the call and every call it was made from: the locals are
\* dropped, the caller's variables keep what was written to them.
Unwind(kind) ==
  /\ status' = kind
  /\ stack' = <<>>
  /\ envs' = <<>>
  /\ store' = SubSeq(store, 1, NParams)

Frame == <<src, phase, prog, calls, s0, tsrc, fout, rout>>

\* The trail of the running call with one more decision.
Noted(d) ==
  IF Len(trail[Len(trail)]) < MaxTrail
    THEN [trail EXCEPT ![Len(trail)] = Append(@, d)]
    ELSE trail

\* { stmts }: a new lexical scope
StepBlock ==
  /\ Running /\ Top.k = "block"
  /\ stack' = Top.stmts \o <<EndScope(Len(store))>> \o Tail(stack)
  /\ envs' = <<Env>> \o envs
  /\ UNCHANGED <<store, status>>
  /\ UNCHANGED <<Frame, trail>>

\* the closing brace: the scope's locals go out of existence
StepEndScope ==
  /\ Running /\ Top.k = "endscope"
  /\ stack' = Tail(stack)
  /\ envs' = Tail(envs)
  /\ store' = SubSeq(store, 1, Top.len)
  /\ UNCHANGED status
  /\ UNCHANGED <<Frame, trail>>

\* let <name> = <init>;  (Stmt::Local, and the Expr::Let of delocal_val)
StepLet ==
  /\ Running /\ Top.k \in {"local", "let"}
  /\ LET name == IF Top.k = "local" THEN Top.pat ELSE Top.name.n
         init == IF Top.k = "local" THEN Top.init[1] ELSE Top.val
     IN IF InBounds(init, Env, store)
          THEN /\ store' = Append(store, Eval(init, Env, store))
               /\ envs' = <<(name :> [a |-> Len(store) + 1, len |-> 0]) @@ Env>> \o Tail(envs)
               /\ stack' = Tail(stack)
               /\ UNCHANGED status
          ELSE Unwind("Panic")
  /\ UNCHANGED <<Frame, trail>>

\* <left> <op> <right>
StepAssignOp ==
  /\ Running /\ Top.k = "assignop"
  /\ IF InBounds(Top.left, Env, store) /\ InBounds(Top.right, Env, store)
       THEN /\ store' = Assigned(Top, Env, store)
            /\ stack' = Tail(stack)
            /\ UNCHANGED <<envs, status>>
       ELSE Unwind("Panic")
  /\ UNCHANGED <<Frame, trail>>

\* if cond { then } else { els }; the branch a conditional of rif! or
\* _reverse_rif! takes is noted
StepIf ==
  /\ Running /\ Top.k = "if"
  /\ IF InBounds(Top.cond, Env, store)
       THEN /\ stack' = (IF Eval(Top.cond, Env, store) THEN <<Top.then>> ELSE Top.els) \o Tail(stack)
            /\ trail' = IF Top.role \in {"rif", "_reverse_rif"}
                          THEN Noted(IF Eval(Top.cond, Env, store) THEN "then" ELSE "else")
                          ELSE trail
            /\ UNCHANGED <<envs, store, status>>
       ELSE Unwind("Panic") /\ UNCHANGED trail
  /\ UNCHANGED Frame

\* while cond { body }; every entry into the body is noted
StepWhile ==
  /\ Running /\ Top.k = "while"
  /\ IF InBounds(Top.cond, Env, store)
       THEN /\ stack' = (IF Eval(Top.cond, Env, store) THEN <<Top.body, Top>> ELSE <<>>) \o Tail(stack)
            /\ trail' = IF Eval(Top.cond, Env, store) THEN Noted("iter") ELSE trail
            /\ UNCHANGED <<envs, store, status>>
       ELSE Unwind("Panic") /\ UNCHANGED trail
  /\ UNCHANGED Frame

\* assert!(cond): continues, or panics "assertion failed"
StepAssert ==
  /\ Running /\ Top.k = "assert"
  /\ IF InBounds(Top.cond, Env, store)
       THEN IF Eval(Top.cond, Env, store)
              THEN /\ stack' = Tail(stack)
                   /\ UNCHANGED <<envs, store, status>>
              ELSE Unwind("GuardViolation")
       ELSE Unwind("Panic")
  /\ UNCHANGED <<Frame, trail>>

StepPanic ==
  /\ Running /\ Top.k = "panic"
  /\ Unwind(panic_kind(Top.msg))
  /\ UNCHANGED <<Frame, trail>>

\* drop(name) of a Copy value, and the string literal stringify! leaves:
\* statements without effect
StepSkip ==
  /\ Running /\ Top.k \in {"drop", "other"}
  /\ stack' = Tail(stack)
  /\ UNCHANGED <<envs, store, status>>
  /\ UNCHANGED <<Frame, trail>>

\* The item of the crate a path names: `Fib::forward` is entry `forward` of
\* the item `Fib`.
Item_of(name) ==
  LET i == CHOOSE j \in 1 .. Len(prog.out.items) : prog.out.items[j].name = name
  IN prog.out.items[i]

\* The parameters of the callee borrow the places the arguments name.
BindArgs(params, args, env, st) ==
  [n \in {params[i] : i \in 1 .. Len(params)} |->
     LET i == CHOOSE j \in 1 .. Len(params) : params[j] = n
     IN [a |-> Addr(args[i], env, st),
         len |-> IF args[i].e = "var" THEN env[args[i].n].len ELSE 0]]

SwapPath == <<"std", "mem", "swap">>

\* X::forward(args) or X::backwards(args) in the body of a routine: the body
\* of that entry point runs on the borrowed places and returns here
StepCall ==
  /\ Running /\ Top.k = "call" /\ Top.func # SwapPath
  /\ IF \A i \in 1 .. Len(Top.args) : InBounds(Top.args[i], Env, store)
       THEN LET callee == Item_of(Top.func[1])
            IN /\ stack' = callee[Top.func[2]] \o <<EndScope(Len(store))>> \o Tail(stack)
               /\ envs' = <<BindArgs(callee.params, Top.args, Env, store)>> \o envs
               /\ UNCHANGED <<store, status>>
       ELSE Unwind("Panic")
  /\ UNCHANGED <<Frame, trail>>

\* std::mem::swap(x, y): the two places exchange their values
StepSwap ==
  /\ Running /\ Top.k = "call" /\ Top.func = SwapPath
  /\ IF \A i \in 1 .. Len(Top.args) : InBounds(Top.args[i], Env, store)
       THEN LET x == Addr(Top.args[1], Env, store)
                y == Addr(Top.args[2], Env, store)
            IN /\ store' = [store EXCEPT ![x] = store[y], ![y] = store[x]]
               /\ stack' = Tail(stack)
               /\ UNCHANGED <<envs, status>>
       ELSE Unwind("Panic")
  /\ UNCHANGED <<Frame, trail>>

\* the entry point returns to the caller
Return ==
  /\ status = "running" /\ stack = <<>>
  /\ status' = "done"
  /\ envs' = <<>>
  /\ UNCHANGED <<store, stack>>
  /\ UNCHANGED <<Frame, trail>>

(***************************************************************************)
(* The caller, as in rrust-test/src/lib.rs: it defines a routine with rfn! *)
(* and, when that compiles, calls one entry point and then the other on    *)
(* the same variables.                                                     *)
(***************************************************************************)
\* Entry-point calls the caller makes on one routine.
MaxCalls == 2

Rfn ==
  /\ phase = "source"
  /\ src.kind = "rfn"
  /\ prog' = compile_crate(<<src>> \o src.peers)
  /\ phase' = IF IsOk(prog') THEN "compiled" ELSE "rejected"
  /\ UNCHANGED <<src, calls, s0, store, envs, stack, status, tsrc, fout, rout, trail>>

\* A function the caller writes without rfn!, using a public macro of the
\* crate in its body: the macro expands in place and there is one function.
PlainFn ==
  /\ phase = "source"
  /\ src.kind = "fn"
  /\ prog' = compile([name |-> src.name, params |-> src.params,
                      forward |-> src.code.stmts, backwards |-> <<>>])
  /\ phase' = IF IsOk(prog') THEN "compiled" ELSE "rejected"
  /\ UNCHANGED <<src, calls, s0, store, envs, stack, status, tsrc, fout, rout, trail>>

CanCall(entry) ==
  /\ phase = "compiled"
  /\ status \in {"idle", "done"}
  /\ Len(calls) < MaxCalls
  /\ (Len(calls) > 0 => calls[Len(calls)] # entry)

\* R::forward(&mut a, &mut b)
CallForward ==
  /\ CanCall("forward")
  /\ calls' = Append(calls, "forward")
  /\ stack' = prog.out.forward
  /\ envs' = <<param_env>>
  /\ status' = "running"
  /\ trail' = Append(trail, <<>>)
  /\ UNCHANGED <<src, phase, prog, s0, store, tsrc, fout, rout>>

\* R::backwards(&mut a, &mut b)
CallBackwards ==
  /\ CanCall("backwards")
  /\ src.kind = "rfn"
  /\ calls' = Append(calls, "backwards")
  /\ stack' = prog.out.backwards
  /\ envs' = <<param_env>>
  /\ status' = "running"
  /\ trail' = Append(trail, <<>>)
  /\ UNCHANGED <<src, phase, prog, s0, store, tsrc, fout, rout>>

(***************************************************************************)
(* The routines the run-time machine is given.                             *)
(***************************************************************************)
A == Var("a")
B == Var("b")
Eq(l, r) == Bin("==", l, r)

\* sources of an assignment to `a`: a literal, another variable, `a` itself
\* (an alias), and a compound expression that reads `a`
Sources == {Lit(1), B, A, Bin("+", A, Lit(0))}
Assignments ==
  {AssignOp(A, op, r) : op \in {"+=", "-=", "^="}, r \in Sources} \cup {AssignOp(B, "+=", A)}
CoreAssignments ==
  {AssignOp(A, "+=", Lit(1)), AssignOp(B, "-=", A), AssignOp(A, "^=", B),
   AssignOp(A, "+=", Bin("+", A, Lit(0)))}
Guards == {Eq(A, Lit(0)), Eq(A, B)}
Bodies == {Block(<<AssignOp(A, "+=", Lit(1))>>), Block(<<AssignOp(B, "+=", A)>>)}

\* assignments between elements of the slice, indexed by `a` and `b`
SliceCode ==
  {<<AssignOp(Index("arr", A), op, Index("arr", B))>> : op \in {"+=", "-="}}
  \cup {<<AssignOp(Index("arr", Lit(0)), "^=", Index("arr", Lit(1)))>>,
        <<AssignOp(A, "+=", Index("arr", Lit(0))), AssignOp(Index("arr", Lit(1)), "-=", A)>>}
StraightCode ==
  {<<>>} \cup {<<x>> : x \in Assignments} \cup {<<x, y>> : x, y \in CoreAssignments}
  \cup {<<AssignOp(A, "*=", Lit(2))>>}
  \cup {<<Block(<<Block(<<AssignOp(A, "+=", Lit(1))>>), Block(<<AssignOp(B, "+=", A)>>)>>)>>}
LocalCode ==
  {<<Local("i", <<Lit(1)>>), AssignOp(A, "+=", Var("i")), Delocal("i", Lit(1))>>,
   <<Local("i", <<Lit(0)>>), AssignOp(Var("i"), "+=", A), AssignOp(B, "+=", Var("i")),
     Delocal("i", A)>>,
   <<Local("i", <<Lit(0)>>), AssignOp(Var("i"), "+=", A), Delocal("i", Lit(0))>>,
   <<Local("i", <<Lit(0)>>), AssignOp(A, "+=", Var("i"))>>,
   <<AssignOp(A, "+=", Lit(1)), Delocal("i", Lit(0))>>}
RifCode ==
  {<<Rif(g1, t, e, g2)>> : g1 \in Guards, g2 \in Guards, t \in Bodies, e \in Bodies}
  \cup {<<Rif3(g1, t, g2)>> : g1 \in Guards, g2 \in Guards, t \in Bodies}
RloopCode ==
  {<<Rloop3(g1, l, g2)>> : g1 \in Guards, g2 \in Guards, l \in Bodies}
  \cup {<<Rloop(g1, Block(<<AssignOp(B, "+=", Lit(1))>>), l, g2)>> :
          g1 \in {Eq(A, Lit(0))}, g2 \in {Eq(A, B)}, l \in Bodies}

\* a conditional and a loop whose body reads the target of its assignment
\* through a compound source
LossyCode ==
  {<<Rif(Eq(A, Lit(0)), Block(<<AssignOp(B, "+=", Lit(1))>>),
         Block(<<AssignOp(A, "+=", Bin("+", A, Lit(0)))>>), Eq(B, Lit(1)))>>,
   <<Rloop3(Eq(A, Lit(0)), Block(<<AssignOp(A, "+=", Bin("+", A, Lit(1)))>>), Eq(A, Lit(3)))>>}

\* a conditional followed by another statement
RifThenCode ==
  {<<Rif(g1, Block(<<AssignOp(A, "+=", Lit(1))>>), Block(<<AssignOp(B, "+=", A)>>), g2),
     AssignOp(B, "^=", Lit(1))>> : g1 \in Guards, g2 \in Guards}
\* loops with a `do` block, for a function written without rfn!
DoLoopCode ==
  {<<Rloop(g1, Block(<<AssignOp(B, "+=", Lit(1))>>), l, g2)>> :
     g1 \in Guards, g2 \in Guards, l \in Bodies}

\* A second routine of the crate, and routines that call its entry points.
X == Var("x")
Step == [name |-> "Step", params |-> <<"x">>, code |-> Block(<<AssignOp(X, "+=", Lit(1))>>)]
CallCode ==
  {<<Call(<<"Step", "forward">>, <<A>>)>>,
   <<Call(<<"Step", "backwards">>, <<A>>)>>,
   <<Call(<<"Step", "forward">>, <<A>>), Call(SwapPath, <<A, B>>)>>,
   <<Call(<<"Step", "forward">>, <<A>>), AssignOp(B, "+=", A),
     Call(<<"Step", "backwards">>, <<A>>)>>,
   <<Local("i", <<Lit(0)>>), Call(<<"Step", "forward">>, <<Var("i")>>),
     AssignOp(A, "+=", Var("i")), Delocal("i", Lit(1))>>}

\* Routines of the crate that can end in a run-time error, each kind once: an
\* assignment of a place to itself, a conditional whose `after` can disagree
\* with `before`, a retirement whose expected value can be wrong.
Faulty ==
  {[name |-> "Alias", params |-> <<"x">>, code |-> Block(<<AssignOp(X, "-=", X)>>)],
   [name |-> "Guard", params |-> <<"x">>,
    code |-> Block(<<Rif3(Eq(X, Lit(0)), Block(<<AssignOp(X, "+=", Lit(1))>>), Eq(X, Lit(1)))>>)],
   [name |-> "Retire", params |-> <<"x">>,
    code |-> Block(<<Local("i", <<Lit(0)>>), AssignOp(Var("i"), "+=", X),
                     Delocal("i", Lit(0))>>)]}
\* A routine that writes `a`, calls one of them on `a` and writes `b` after
\* the call.
Chain ==
  {[kind |-> "rfn", name |-> "R", params |-> Params, lens |-> Lens, bits |-> Width,
    code |-> Block(<<AssignOp(A, "+=", Lit(1)), Call(<<p.name, "forward">>, <<A>>),
                     AssignOp(B, "+=", Lit(1))>>),
    peers |-> <<p>>] : p \in Faulty}

\* test_scary_correct and test_scary_incorrect: `payload` is added to `arr`
\* element by element, the index a local; ArrLen stands for 2048.  The caller
\* passes an `arr` as long as `payload`, or shorter.
ScaryCode ==
  <<Local("i", <<Lit(0)>>),
    Rloop3(Eq(Var("i"), Lit(0)),
           Block(<<AssignOp(Index("arr", Var("i")), "+=", Index("payload", Var("i"))),
                   AssignOp(Var("i"), "+=", Lit(1))>>),
           Eq(Var("i"), Lit(ArrLen))),
    Delocal("i", Lit(ArrLen))>>
Scary ==
  {[kind |-> "rfn", name |-> "Scary", params |-> <<"arr", "payload">>,
    lens |-> <<n, ArrLen>>, bits |-> Width, code |-> Block(ScaryCode), peers |-> <<>>] :
     n \in {ArrLen - 1, ArrLen}}

Routines ==
  {[kind |-> "rfn", name |-> "R", params |-> Params, lens |-> Lens, bits |-> Width,
    code |-> Block(c), peers |-> <<>>] :
     c \in StraightCode \cup LocalCode \cup RifCode \cup RifThenCode \cup RloopCode
           \cup SliceCode \cup LossyCode}
  \cup {[kind |-> "fn", name |-> "f", params |-> Params, lens |-> Lens, bits |-> Width,
          code |-> Block(c), peers |-> <<>>] : c \in DoLoopCode}
  \cup {[kind |-> "rfn", name |-> "R", params |-> Params, lens |-> Lens, bits |-> Width,
          code |-> Block(c), peers |-> <<Step>>] : c \in CallCode}
  \cup Scary \cup Chain

UsesSlice(r) == r.code.stmts \in SliceCode
\* The caller's variables before the first call.
Stores(r) ==
  IF r \in Scary
    THEN {[i \in 1 .. r.lens[1] |-> 0] \o p : p \in [1 .. ArrLen -> {1, 2}]}
    ELSE {s \in [1 .. 2 + ArrLen -> Values] :
            \A i \in 3 .. 2 + ArrLen : IF UsesSlice(r) THEN s[i] \in {1, 2} ELSE s[i] = 0}

Pending == [err |-> "pending", names |-> <<>>, out |-> <<>>]

Init ==
  /\ src \in Routines
  /\ phase = "source"
  /\ prog = Pending
  /\ calls = <<>>
  /\ store \in Stores(src)
  /\ s0 = store
  /\ envs = <<>>
  /\ stack = <<>>
  /\ status = "idle"
  /\ trail = <<>>
  /\ tsrc = Block(<<>>)
  /\ fout = Pending
  /\ rout = Pending

Next ==
  \/ Rfn
  \/ PlainFn
  \/ CallForward
  \/ CallBackwards
  \/ StepBlock
  \/ StepEndScope
  \/ StepLet
  \/ StepAssignOp
  \/ StepIf
  \/ StepWhile
  \/ StepAssert
  \/ StepPanic
  \/ StepSkip
  \/ StepCall
  \/ StepSwap
  \/ Return

Spec == Init /\ [][Next]_vars

(***************************************************************************)
(* test_fib: the routine Fib, called forward and then backwards on          *)
(* x1 = 0, x2 = 0 and n.                                                   *)
(***************************************************************************)
\* Bits of the integers of Fib: wide enough for the values it computes.
FibBits == 8
\* `let mut n = 10;`
FibN == 10
X1 == Var("x1")
X2 == Var("x2")
N == Var("n")
Fib ==
  [kind |-> "rfn", name |-> "Fib", params |-> <<"x1", "x2", "n">>, lens |-> <<0, 0, 0>>,
   bits |-> FibBits, peers |-> <<>>,
   code |-> Block(<<Rif(Eq(N, Lit(0)),
                        Block(<<AssignOp(X1, "+=", Lit(1)), AssignOp(X2, "+=", Lit(1))>>),
                        Block(<<AssignOp(N, "-=", Lit(1)),
                                Call(<<"Fib", "forward">>, <<X1, X2, N>>),
                                AssignOp(X1, "+=", X2),
                                Call(SwapPath, <<X1, X2>>)>>),
                        Eq(X1, X2))>>)]

FibInit ==
  /\ src = Fib
  /\ phase = "source"
  /\ prog = Pending
  /\ calls = <<>>
  /\ store \in {<<0, 0, n>> : n \in 0 .. FibN}
  /\ s0 = store
  /\ envs = <<>>
  /\ stack = <<>>
  /\ status = "idle"
  /\ trail = <<>>
  /\ tsrc = Block(<<>>)
  /\ fout = Pending
  /\ rout = Pending

\* The steps a run of Fib takes.
FibNext ==
  \/ Rfn
  \/ CallForward
  \/ CallBackwards
  \/ StepBlock
  \/ StepEndScope
  \/ StepAssignOp
  \/ StepIf
  \/ StepAssert
  \/ StepSkip
  \/ StepCall
  \/ StepSwap
  \/ Return

SpecFib == FibInit /\ [][FibNext]_vars

(***************************************************************************)
(* The transformers on their own: a block is handed to forward! and to     *)
(* reverse!, and to rfn! (which runs both and expands everything).         *)
(***************************************************************************)
TForward ==
  /\ fout = Pending
  /\ fout' = forward_impl(<<tsrc>>)
  /\ UNCHANGED <<src, phase, prog, calls, s0, store, envs, stack, status, tsrc, rout, trail>>

TReverse ==
  /\ rout = Pending
  /\ rout' = reverse_impl(<<tsrc>>)
  /\ UNCHANGED <<src, phase, prog, calls, s0, store, envs, stack, status, tsrc, fout, trail>>

TRfn ==
  /\ prog = Pending
  /\ prog' = compile(rfn("R", Params, tsrc))
  /\ UNCHANGED <<src, phase, calls, s0, store, envs, stack, status, tsrc, fout, rout, trail>>

\* The statements the blocks are built from.
I0 == Lit(0)
TLocals == {Local("i", <<I0>>), Local("j", <<A>>)}
TDelocals == {Delocal("i", Lit(1)), Delocal("j", B)}
TAssigns == {AssignOp(A, op, B) : op \in AssignOps}
TCalls ==
  {Call(<<"R", "forward">>, <<A, B>>), Call(<<"R", "backwards">>, <<A, B>>),
   Call(<<"std", "mem", "swap">>, <<A, B>>), Call(<<"reset">>, <<A>>)}
TInner ==
  {<<Local("i", <<I0>>), Delocal("i", Lit(1))>>,
   <<AssignOp(A, "+=", B), AssignOp(B, "^=", A)>>,
   <<AssignOp(A, "-=", Lit(1)), Block(<<AssignOp(B, "+=", A), AssignOp(A, "^=", B)>>)>>,
   <<Delocal("i", Lit(1))>>,
   <<Local("j", <<A>>)>>}
TNested == {Block(b) : b \in TInner}
TMacros ==
  {Rif(Eq(A, I0), Block(b), Block(<<AssignOp(B, "-=", A), AssignOp(A, "+=", Lit(1))>>), Eq(A, B)) :
     b \in TInner}
  \cup {Rloop3(Eq(A, I0), Block(<<AssignOp(A, "+=", Lit(1)), AssignOp(B, "^=", A)>>), Eq(A, B)),
        Rloop(Eq(A, I0), Block(<<AssignOp(B, "+=", Lit(1))>>),
              Block(<<AssignOp(A, "+=", Lit(1))>>), Eq(A, B))}
TStmts ==
  TLocals \cup TDelocals \cup TAssigns \cup TCalls \cup TNested \cup TMacros
  \cup {Other("Binary"), Item}

RECURSIVE SeqsUpTo(_, _)
SeqsUpTo(S, n) ==
  IF n = 0
    THEN {<<>>}
    ELSE LET shorter == SeqsUpTo(S, n - 1)
         IN shorter \cup {Append(s, x) : s \in {q \in shorter : Len(q) = n - 1}, x \in S}

\* Longer blocks are built from declarations, retirements and assignments.
TCore ==
  TLocals \cup TDelocals
  \cup {AssignOp(A, "+=", B), AssignOp(B, "^=", A), AssignOp(A, "*=", B),
        Block(<<Local("i", <<I0>>), AssignOp(A, "-=", Var("i")), Delocal("i", Lit(1))>>)}

\* A name declared a second time while it is live, each declaration retired.
Redeclared ==
  Block(<<Local("i", <<I0>>), Local("i", <<I0>>), Delocal("i", I0), Delocal("i", I0)>>)

\* A nested block, a conditional or a loop between the declaration and the
\* retirement of a local of the enclosing block.
TScoped ==
  {Block(<<Local("i", <<I0>>), x, Delocal("i", Lit(1))>>) : x \in TNested \cup TMacros}

TBlocks ==
  {Block(s) : s \in SeqsUpTo(TCore, MaxLen)}
  \cup {Block(<<x>>) : x \in TStmts} \cup {Block(<<x, y>>) : x, y \in TStmts}
  \cup {Redeclared} \cup TScoped

TInit ==
  /\ tsrc \in TBlocks
  /\ fout = Pending
  /\ rout = Pending
  /\ prog = Pending
  /\ src = [kind |-> "rfn", name |-> "R", params |-> Params, lens |-> Lens, bits |-> Width,
            code |-> Block(<<>>), peers |-> <<>>]
  /\ phase = "source"
  /\ calls = <<>>
  /\ store = [i \in 1 .. 2 + ArrLen |-> 0]
  /\ s0 = store
  /\ envs = <<>>
  /\ stack = <<>>
  /\ status = "idle"
  /\ trail = <<>>

TNext ==
  \/ TForward
  \/ TReverse
  \/ TRfn

SpecT == TInit /\ [][TNext]_vars

(***************************************************************************)
(* Properties.                                                             *)
(***************************************************************************)
Finished == status \in {"done"} \cup Errors
Code == src.code.stmts
IsPlace(x) == x.e \in {"var", "index"}
\* Both operands are places and name the same cell.
SameStorage(l, r, env, st) ==
  /\ IsPlace(l) /\ IsPlace(r)
  /\ InBounds(l, env, st) /\ InBounds(r, env, st)
  /\ Addr(l, env, st) = Addr(r, env, st)

\* C1. Round-trip law: for a routine both transformers accept, whenever the
\* forward entry has completed without a run-time error and the backward
\* entry is then run on the resulting state, the backward entry ends
\* without error and every parameter has the value it had before the
\* forward call.
C1_RoundTrip ==
  (phase = "compiled" /\ calls = <<"forward", "backwards">> /\ Finished)
    => (status = "done" /\ store = s0)

IsDecl(s) == s.k = "local"
IsRetire(s) == s.k = "macro" /\ s.path = <<"delocal">>
\* Among the first k statements: declarations of n not yet retired.
LiveCount(stmts, n, k) ==
  Cardinality({i \in 1 .. k : IsDecl(stmts[i]) /\ stmts[i].pat = n})
  - Cardinality({i \in 1 .. k : IsRetire(stmts[i]) /\ stmts[i].tokens[1].n = n})
\* A retirement of a name that is not live where it stands.
HasUnknownRetire(stmts) ==
  \E k \in 1 .. Len(stmts) :
    IsRetire(stmts[k]) /\ LiveCount(stmts, stmts[k].tokens[1].n, k - 1) <= 0
DeclaredNames(stmts) == {stmts[i].pat : i \in {j \in 1 .. Len(stmts) : IsDecl(stmts[j])}}
LiveAtEnd(stmts) == {n \in DeclaredNames(stmts) : LiveCount(stmts, n, Len(stmts)) > 0}
LifetimeFault(stmts) == HasUnknownRetire(stmts) \/ LiveAtEnd(stmts) # {}
\* The block and the blocks nested in it as statements, at any depth.
RECURSIVE SubBlocks(_)
SubBlocks(b) ==
  {b} \cup UNION {SubBlocks(b.stmts[i]) : i \in {j \in 1 .. Len(b.stmts) : b.stmts[j].k = "block"}}
\* The blocks passed to a conditional or a loop as its branches and bodies.
BodyBlocks(b) ==
  UNION {{m.tokens[i] : i \in {j \in 1 .. Len(m.tokens) : "k" \in DOMAIN m.tokens[j]}} :
           m \in {b.stmts[i] : i \in {j \in 1 .. Len(b.stmts) :
                    b.stmts[j].k = "macro" /\ b.stmts[j].path \in {<<"rif">>, <<"rloop">>}}}}
\* The names a failure reports are the live ones, each as often as it is live.
ReportsLive(r, stmts) ==
  /\ {r.names[i] : i \in 1 .. Len(r.names)} = LiveAtEnd(stmts)
  /\ \A n \in LiveAtEnd(stmts) :
       Cardinality({i \in 1 .. Len(r.names) : r.names[i] = n}) = LiveCount(stmts, n, Len(stmts))
\* Only declarations, retirements and invertible assignments: nothing but
\* the lifetime check can fail.
PlainBlock(stmts) ==
  \A i \in 1 .. Len(stmts) :
    \/ IsDecl(stmts[i])
    \/ IsRetire(stmts[i])
    \/ stmts[i].k = "assignop" /\ stmts[i].op \in {"+=", "-=", "^="}
LifetimeVerdict(r, b) ==
  /\ (\E x \in SubBlocks(b) : LifetimeFault(x.stmts)) => ~IsOk(r)
  /\ r.err = "UnknownLocal" => \E x \in SubBlocks(b) : HasUnknownRetire(x.stmts)
  /\ r.err = "UnretiredLocals" =>
       \E x \in SubBlocks(b) :
         ~HasUnknownRetire(x.stmts) /\ LiveAtEnd(x.stmts) # {} /\ ReportsLive(r, x.stmts)
  /\ PlainBlock(b.stmts) =>
       /\ HasUnknownRetire(b.stmts) => r = Err("UnknownLocal")
       /\ (~HasUnknownRetire(b.stmts) /\ LiveAtEnd(b.stmts) # {}) =>
            (r.err = "UnretiredLocals" /\ ReportsLive(r, b.stmts))
       /\ ~LifetimeFault(b.stmts) => IsOk(r)

\* C3. Lifetime completeness: the forward and the reverse transformer both
\* fail, producing no program, on a block (or a block nested in it) that
\* retires a name not live at that point (UnknownLocal) or leaves a local
\* live at its end (UnretiredLocals, naming exactly the live locals); the
\* same failure rejects a routine when the block is a branch or body of a
\* conditional or loop.
C3_LifetimeCompleteness ==
  /\ fout # Pending => LifetimeVerdict(fout, tsrc)
  /\ rout # Pending => LifetimeVerdict(rout, tsrc)
  /\ (prog # Pending /\ \E x \in BodyBlocks(tsrc) : LifetimeFault(x.stmts)) => ~IsOk(prog)

\* Both transformers have rejected a block in which `i` is retired and then
\* `j` is left live.
C3_Witness ==
  /\ fout.err = "UnretiredLocals" /\ rout.err = "UnretiredLocals"
  /\ rout.names = <<"j">>
  /\ Len(tsrc.stmts) = 3 /\ IsRetire(tsrc.stmts[2])

\* The inverse operator of an invertible compound assignment.
InvertibleOps == {"+=", "-=", "^="}
Invert(op) == CASE op = "+=" -> "-=" [] op = "-=" -> "+=" [] op = "^=" -> "^="
\* The compound assignments of a block, nested blocks included.
AssignsOf(b) ==
  UNION {{x.stmts[i] : i \in {j \in 1 .. Len(x.stmts) : x.stmts[j].k = "assignop"}} :
           x \in SubBlocks(b)}
OnlyAssigns(stmts) == stmts # <<>> /\ \A i \in 1 .. Len(stmts) : stmts[i].k = "assignop"
\* The assignment the reverse transformer put at position i of its output.
EmittedAssign(r, i) ==
  LET g == r.out.stmts[1].stmts[i] IN g.stmts[Len(g.stmts)]

\* C4. Operator closure: for every compound assignment of the block, an
\* operator among += -= ^= is inverted to -= += ^= and inverting twice gives
\* the operator back; any other operator is refused (NonInvertibleOperator)
\* and the reverse transformer, and with it rfn!, then produces no program.
\* A block of invertible assignments alone is accepted, each emitted
\* assignment carrying the inverse operator.
C4_OperatorClosure ==
  /\ \A s \in AssignsOf(tsrc) :
       IF s.op \in InvertibleOps
         THEN /\ reverse_bin_op(s.op) = Ok(Invert(s.op))
              /\ reverse_bin_op(reverse_bin_op(s.op).out) = Ok(s.op)
         ELSE /\ reverse_bin_op(s.op) = Err("NonInvertibleOperator")
              /\ rout # Pending => ~IsOk(rout)
              /\ prog # Pending => ~IsOk(prog)
  /\ rout.err = "NonInvertibleOperator" => \E s \in AssignsOf(tsrc) : s.op \notin InvertibleOps
  /\ (rout # Pending /\ OnlyAssigns(tsrc.stmts)) =>
       IF \E s \in AssignsOf(tsrc) : s.op \notin InvertibleOps
         THEN rout = Err("NonInvertibleOperator")
         ELSE /\ IsOk(rout)
              /\ \A i \in 1 .. Len(tsrc.stmts) :
                   EmittedAssign(rout, Len(tsrc.stmts) + 1 - i).op = Invert(tsrc.stmts[i].op)

\* The reverse transformer has refused `a <<= b` although the forward
\* transformer accepted the block.
C4_Witness ==
  /\ rout = Err("NonInvertibleOperator")
  /\ IsOk(fout)
  /\ \E s \in AssignsOf(tsrc) : s.op = "<<="

(***************************************************************************)
(* The protocols of the conditional and the loop, written out as functions *)
(* from the state before a call to the call's outcome.  Guards and bodies  *)
(* are over the parameters; a body is a list of compound assignments.      *)
(***************************************************************************)
Outcome(st, s) == [status |-> st, store |-> s]
Observed == Outcome(status, store)
Holds(g, s) == Eval(g, param_env, s)
\* The body's assignments in order; and, last first, with inverted operators.
RECURSIVE RunBody(_, _)
RunBody(stmts, s) ==
  IF stmts = <<>> THEN s ELSE RunBody(Tail(stmts), Assigned(Head(stmts), param_env, s))
RECURSIVE UndoBody(_, _)
UndoBody(stmts, s) ==
  IF stmts = <<>>
    THEN s
    ELSE LET h == stmts[Len(stmts)]
         IN UndoBody(SubSeq(stmts, 1, Len(stmts) - 1),
                     Assigned(AssignOp(h.left, Invert(h.op), h.right), param_env, s))

IsRif(m) == m.k = "macro" /\ m.path = <<"rif">>
IsRloop(m) == m.k = "macro" /\ m.path = <<"rloop">>
Last(m) == m.tokens[Len(m.tokens)]
ElseOf(m) == IF Len(m.tokens) = 4 THEN m.tokens[3].stmts ELSE <<>>
DoOf(m) == IF Len(m.tokens) = 4 THEN m.tokens[2].stmts ELSE <<>>
BodyOf(m) == m.tokens[Len(m.tokens) - 1].stmts

\* Forward: dispatch on `before`, then require `after` to agree.
RifForward(m, s) ==
  LET taken == Holds(m.tokens[1], s)
      s1 == IF taken THEN RunBody(m.tokens[2].stmts, s) ELSE RunBody(ElseOf(m), s)
  IN IF Holds(Last(m), s1) = taken THEN Outcome("done", s1) ELSE Outcome("GuardViolation", s1)

\* Backward: dispatch on `after`, then require `before` to agree.
RifBackward(m, s) ==
  LET taken == Holds(Last(m), s)
      s1 == IF taken THEN UndoBody(m.tokens[2].stmts, s) ELSE UndoBody(ElseOf(m), s)
  IN IF Holds(m.tokens[1], s1) = taken THEN Outcome("done", s1) ELSE Outcome("GuardViolation", s1)

\* A loop that has not ended after this many rounds has met a state twice
\* and never ends.
Rounds == Modulus * Modulus

\* Forward, after `do`: leave when `until` holds; otherwise `body`, require
\* `from` false, `do`, and again.
RECURSIVE LoopForwardFrom(_, _, _)
LoopForwardFrom(m, s, n) ==
  IF Holds(Last(m), s)
    THEN Outcome("done", s)
    ELSE IF n = 0
           THEN Outcome("never", s)
           ELSE LET s1 == RunBody(BodyOf(m), s)
                IN IF Holds(m.tokens[1], s1)
                     THEN Outcome("GuardViolation", s1)
                     ELSE LoopForwardFrom(m, RunBody(DoOf(m), s1), n - 1)

LoopForward(m, s) ==
  IF ~Holds(m.tokens[1], s)
    THEN Outcome("GuardViolation", s)
    ELSE LoopForwardFrom(m, RunBody(DoOf(m), s), Rounds)

\* Backward: the same with `from` and `until` exchanged and the blocks undone.
RECURSIVE LoopBackwardFrom(_, _, _)
LoopBackwardFrom(m, s, n) ==
  IF Holds(m.tokens[1], s)
    THEN Outcome("done", s)
    ELSE IF n = 0
           THEN Outcome("never", s)
           ELSE LET s1 == UndoBody(BodyOf(m), s)
                IN IF Holds(Last(m), s1)
                     THEN Outcome("GuardViolation", s1)
                     ELSE LoopBackwardFrom(m, UndoBody(DoOf(m), s1), n - 1)

LoopBackward(m, s) ==
  IF ~Holds(Last(m), s)
    THEN Outcome("GuardViolation", s)
    ELSE LoopBackwardFrom(m, UndoBody(DoOf(m), s), Rounds)

\* What follows a conditional runs only when the conditional ended well.
Continue(o, rest) ==
  IF o.status = "done" THEN Outcome("done", RunBody(rest, o.store)) ELSE o

\* C5. Forward conditional protocol: a forward call of a routine whose body
\* is a conditional (and, possibly, statements after it) evaluates `before`;
\* when true it runs `then` and requires `after` to be true, when false it
\* runs `else` (nothing if absent) and requires `after` to be false; a
\* failed requirement ends the call in GuardViolation with the branch's
\* effect left in place, otherwise the statements after the conditional run.
C5_ForwardConditional ==
  (Code # <<>> /\ IsRif(Code[1]) /\ calls = <<"forward">> /\ Finished)
    => Observed = Continue(RifForward(Code[1], s0), Tail(Code))

\* A forward call took the else branch and was stopped because `after` held.
C5_Witness ==
  /\ Code # <<>> /\ IsRif(Code[1]) /\ calls = <<"forward">>
  /\ status = "GuardViolation"
  /\ ~Holds(Code[1].tokens[1], s0)
  /\ Len(Code[1].tokens) = 4
  /\ store # s0

\* C6. Reverse conditional protocol: a backward call of a routine whose body
\* is a conditional (after undoing the statements that follow it) dispatches
\* on `after`; when true it undoes `then` and requires `before` to be true,
\* when false it undoes `else` (nothing if absent) and requires `before` to
\* be false; a failed requirement ends the call in GuardViolation.
C6_ReverseConditional ==
  (Code # <<>> /\ IsRif(Code[1]) /\ calls = <<"backwards">> /\ Finished)
    => Observed = RifBackward(Code[1], UndoBody(Tail(Code), s0))

\* A backward call undid the then branch, `after` being true and `before`
\* true afterwards.
C6_Witness ==
  /\ Code # <<>> /\ IsRif(Code[1]) /\ calls = <<"backwards">>
  /\ status = "done"
  /\ Holds(Last(Code[1]), UndoBody(Tail(Code), s0))
  /\ ~Holds(Code[1].tokens[1], s0)
  /\ store # s0

\* C7. Forward loop protocol: a forward call of a function whose body is a
\* loop requires `from` on entry, runs `do` (if present) and then, while
\* `until` is false, runs `body`, requires `from` to be false and runs `do`
\* again; a failed requirement ends the call in GuardViolation; the call
\* ends normally only in a state where `until` holds, and never ends when
\* the protocol never reaches one.
C7_ForwardLoop ==
  (Len(Code) = 1 /\ IsRloop(Code[1]) /\ calls = <<"forward">> /\ Finished)
    => /\ Observed = LoopForward(Code[1], s0)
       /\ status = "done" => Holds(Last(Code[1]), store)

\* A loop with a `do` block ended normally after at least one round.
C7_Witness ==
  /\ Len(Code) = 1 /\ IsRloop(Code[1]) /\ calls = <<"forward">>
  /\ Len(Code[1].tokens) = 4
  /\ status = "done"
  /\ ~Holds(Last(Code[1]), RunBody(DoOf(Code[1]), s0))

\* C8. Reverse loop protocol: a routine whose body is a loop, with or
\* without a `do` block, has a backward program; a backward call requires
\* `until` on entry, undoes `do` (if present) and then, while `from` is
\* false, undoes `body`, requires `until` to be false and undoes `do` again;
\* a failed requirement ends the call in GuardViolation, and the call ends
\* normally only in a state where `from` holds.
C8_ReverseLoop ==
  (src.kind = "rfn" /\ Len(Code) = 1 /\ IsRloop(Code[1]) /\ phase # "source")
    => /\ phase = "compiled"
       /\ (calls = <<"backwards">> /\ Finished) =>
            /\ Observed = LoopBackward(Code[1], s0)
            /\ status = "done" => Holds(Code[1].tokens[1], store)

(***************************************************************************)
(* The reverse transformer's output against its input.                     *)
(***************************************************************************)
\* o is the reverse rewrite of the source statement s; a nested block is
\* rewritten as a block is.
RECURSIVE RevOf(_, _)
RECURSIVE RevSeq(_, _)
RevOf(s, o) ==
  CASE IsDecl(s) -> o = Macro(<<"::rrust", "delocal">>, <<Var(s.pat), s.init[1]>>)
    [] IsRetire(s) -> o = LetE(s.tokens[1], s.tokens[2])
    [] s.k = "assignop" ->
         /\ o.k = "block"
         /\ o.stmts[Len(o.stmts)] = AssignOp(s.left, Invert(s.op), s.right)
    [] s.k = "block" -> o.k = "block" /\ RevSeq(s.stmts, o.stmts)
    [] s.k = "call" -> o.k = "call" /\ o.args = s.args
    [] IsRif(s) -> o = Macro(<<"::rrust", "_reverse_rif">>, s.tokens)
    [] IsRloop(s) -> o = Macro(<<"::rrust", "_reverse_rloop">>, s.tokens)
    [] OTHER -> FALSE
\* O holds the rewrites of S's statements, last first, one for one.
RevSeq(S, O) ==
  /\ Len(O) = Len(S)
  /\ \A i \in 1 .. Len(S) : RevOf(S[i], O[Len(S) + 1 - i])

\* The statements of expanded code that do the work: the guards put around
\* them (alias guards, assertions, the literal of stringify!, the drop that
\* ends a retirement) are left out.
IsGuard(s) ==
  \/ s.k \in {"assert", "drop", "other"}
  \/ s.k = "if" /\ s.role = "alias"
Core(stmts) == SelectSeq(stmts, LAMBDA s : ~IsGuard(s))
\* The expanded backward code R mirrors the expanded forward code F: the
\* same statements, each in its reverse form, last first, at every depth.
RECURSIVE MirrorStmt(_, _)
RECURSIVE MirrorSeq(_, _)
MirrorStmt(f, r) ==
  CASE f.k = "block" -> r.k = "block" /\ MirrorSeq(f.stmts, r.stmts)
    [] f.k = "assignop" -> r = AssignOp(f.left, Invert(f.op), f.right)
    [] f.k = "local" ->
         r.k = "if" /\ r.role = "delocal" /\ r.cond = Bin("!=", Var(f.pat), f.init[1])
    [] f.k = "if" /\ f.role = "delocal" -> r = LetE(f.cond.l, f.cond.r)
    [] f.k = "if" /\ f.role = "rif" ->
         /\ r.k = "if" /\ r.role = "_reverse_rif"
         /\ MirrorSeq(f.then.stmts, r.then.stmts)
         /\ Len(r.els) = Len(f.els)
         /\ \A i \in 1 .. Len(f.els) : MirrorSeq(f.els[i].stmts, r.els[i].stmts)
    [] f.k = "while" ->
         r.k = "while" /\ r.role = "_reverse_rloop" /\ MirrorSeq(f.body.stmts, r.body.stmts)
    [] f.k = "call" -> r.k = "call" /\ r.args = f.args
    [] OTHER -> FALSE
MirrorSeq(F, R) ==
  /\ Len(Core(R)) = Len(Core(F))
  /\ \A i \in 1 .. Len(Core(F)) : MirrorStmt(Core(F)[i], Core(R)[Len(Core(F)) + 1 - i])

\* The statements reverse! put inside its two pairs of braces.
ReversedStmts(r) == r.out.stmts[1].stmts

\* C9. Structural reversal: when the reverse transformer accepts a block
\* s1..sn its output is rev(sn)..rev(s1), one statement for each, and the
\* same holds in every nested block; in the routine rfn! builds, the
\* backward function mirrors the forward function statement for statement,
\* last first, at every depth, inside the branches of conditionals and the
\* bodies of loops as well.
C9_StructuralReversal ==
  /\ IsOk(rout) => RevSeq(tsrc.stmts, ReversedStmts(rout))
  /\ IsOk(prog) => MirrorSeq(prog.out.forward, prog.out.backwards)

\* A routine was built from a conditional whose then branch holds an
\* assignment and a nested block of two assignments, followed by another
\* assignment.
C9_Witness ==
  /\ IsOk(prog) /\ IsOk(rout)
  /\ Len(tsrc.stmts) = 2
  /\ IsRif(tsrc.stmts[1])
  /\ Len(tsrc.stmts[1].tokens[2].stmts) = 2
  /\ tsrc.stmts[1].tokens[2].stmts[2].k = "block"
  /\ tsrc.stmts[2].k = "assignop"

\* Declarations and retirements in O are those of S exchanged, last first.
RECURSIVE SwapSeq(_, _)
SwapSeq(S, O) ==
  /\ Len(O) = Len(S)
  /\ \A i \in 1 .. Len(S) :
       LET s == S[i]
           o == O[Len(S) + 1 - i]
       IN CASE IsDecl(s) ->
                 /\ o.k = "macro" /\ o.path[Len(o.path)] = "delocal"
                 /\ o.tokens = <<Var(s.pat), s.init[1]>>
            [] IsRetire(s) -> o.k = "let" /\ o.name = s.tokens[1] /\ o.val = s.tokens[2]
            [] s.k = "block" -> o.k = "block" /\ SwapSeq(s.stmts, o.stmts)
            [] OTHER -> ~IsDecl(o) /\ o.k # "let"

\* C10. Declaration/retirement swap: in the reverse transformer's output a
\* declaration `let name = init` has become the retirement delocal!(name,
\* init) and a retirement delocal!(name, expected) has become the
\* declaration `let mut name = expected`, at every depth; in the backward
\* function of the routine the former is the check `if name != init` that
\* panics with "Delocal failed" and the latter creates the local from
\* `expected`.
C10_DeclarationRetirementSwap ==
  /\ IsOk(rout) => SwapSeq(tsrc.stmts, ReversedStmts(rout))
  /\ IsOk(prog) =>
       LET bw == Core(prog.out.backwards[1].stmts[1].stmts)
           n == Len(tsrc.stmts)
       IN /\ Len(bw) = n
          /\ \A i \in 1 .. n :
               LET s == tsrc.stmts[i]
                   o == bw[n + 1 - i]
               IN /\ IsDecl(s) =>
                       o = IfStmt(Bin("!=", Var(s.pat), s.init[1]),
                                  Block(<<PanicStmt(DelocalMsg)>>), <<>>, "delocal")
                  /\ IsRetire(s) => o = LetE(s.tokens[1], s.tokens[2])

\* A routine was built from `let j = a; <assignment>; delocal!(j, b)`.
C10_Witness ==
  /\ IsOk(rout) /\ IsOk(prog)
  /\ Len(tsrc.stmts) = 3
  /\ IsDecl(tsrc.stmts[1]) /\ tsrc.stmts[1].pat = "j"
  /\ tsrc.stmts[2].k = "assignop"
  /\ IsRetire(tsrc.stmts[3])

\* A call of an entry point of a routine, its direction, and the same call in
\* another direction.
IsRoutineCall(s) == s.k = "call" /\ s.func[Len(s.func)] \in {"forward", "backwards"}
Direction(s) == s.func[Len(s.func)]
Directed(s, d) == Call(SubSeq(s.func, 1, Len(s.func) - 1) \o <<d>>, s.args)

\* C11. Call retargeting by the reverse transformer: in the output every
\* call of a forward entry point is the call of the same routine's backwards
\* entry point with the same arguments, at the mirrored position; a call of
\* any other direction (a call of a backwards entry point written in the
\* source) makes the reverse transformer fail.
C11_ReverseCallRetargeting ==
  rout # Pending =>
    LET n == Len(tsrc.stmts)
    IN /\ IsOk(rout) =>
            \A i \in 1 .. n :
              (IsRoutineCall(tsrc.stmts[i]) /\ Direction(tsrc.stmts[i]) = "forward") =>
                ReversedStmts(rout)[n + 1 - i] = Directed(tsrc.stmts[i], "backwards")
       /\ (\E i \in 1 .. n :
             IsRoutineCall(tsrc.stmts[i]) /\ Direction(tsrc.stmts[i]) # "forward") =>
            ~IsOk(rout)

\* A declaration of a name that is live where the declaration stands.
Redeclares(stmts) ==
  \E k \in 1 .. Len(stmts) : IsDecl(stmts[k]) /\ LiveCount(stmts, stmts[k].pat, k - 1) > 0

\* C12. Duplicate declaration: a block that declares a name again while the
\* name is live makes the forward transformer and the reverse transformer
\* fail with DuplicateLocal.
C12_DuplicateDeclaration ==
  Redeclares(tsrc.stmts) =>
    /\ fout # Pending => fout.err = "DuplicateLocal"
    /\ rout # Pending => rout.err = "DuplicateLocal"

\* The Fibonacci numbers 1, 1, 2, 3, 5, ..
RECURSIVE FibNum(_)
FibNum(k) == IF k <= 2 THEN 1 ELSE FibNum(k - 1) + FibNum(k - 2)

\* C13. Recursive scenario Fib: forward on (x1, x2, n) = (0, 0, 10) ends with
\* (89, 144, 0), and on (0, 0, n) with the Fibonacci numbers n + 1 and n + 2;
\* backwards on that result ends with (0, 0, n) again; and while the backward
\* program runs, every call of Fib it makes is a call of the backwards entry
\* point (while the forward program runs, of the forward entry point).
C13_Fib ==
  /\ (calls = <<"forward">> /\ Finished) =>
       /\ status = "done"
       /\ store = <<FibNum(s0[3] + 1), FibNum(s0[3] + 2), 0>>
       /\ s0 = <<0, 0, 10>> => store = <<89, 144, 0>>
  /\ (calls = <<"forward", "backwards">> /\ Finished) =>
       /\ status = "done"
       /\ store = s0
  /\ (calls # <<>> /\ calls[1] = "forward" /\ Running /\ IsRoutineCall(Top)) =>
       Top = Directed(Call(<<"Fib", "forward">>, <<X1, X2, N>>), calls[Len(calls)])

\* Forward from (0, 0, 10) gave (89, 144, 0) and backwards has brought the
\* three variables back.
C13_Witness ==
  /\ calls = <<"forward", "backwards">> /\ status = "done"
  /\ s0 = <<0, 0, 10>> /\ store = s0

\* The two arrays of the caller of Scary, in a store.
ArrOf(s) == SubSeq(s, 1, src.lens[1])
PayloadOf(s) == SubSeq(s, src.lens[1] + 1, src.lens[1] + ArrLen)

\* C14. Bulk array copy: with `arr` as long as `payload` and zero at the
\* start, forward ends without error with arr = payload, and backwards after
\* it ends without error with arr all zero, `payload` as it was; with `arr`
\* shorter than the number of elements copied, each entry point ends in a
\* panic (an index outside the slice), and at no point of any run has a cell
\* outside `arr` (an element of `payload`) been written.
C14_ArrayCopy ==
  src \in Scary =>
    /\ PayloadOf(store) = PayloadOf(s0)
    /\ (Finished /\ src.lens[1] = ArrLen) =>
         /\ status = "done" /\ Len(store) = Len(s0)
         /\ calls = <<"forward">> => ArrOf(store) = PayloadOf(s0)
         /\ calls = <<"forward", "backwards">> => ArrOf(store) = [i \in 1 .. ArrLen |-> 0]
    /\ (Finished /\ src.lens[1] < ArrLen) => status = "Panic" /\ Len(store) = Len(s0)

\* The copy ran forward and backwards on arrays of equal length: `arr` is
\* zero again.
C14_Witness ==
  /\ src \in Scary /\ src.lens[1] = ArrLen
  /\ calls = <<"forward", "backwards">> /\ status = "done"
  /\ ArrOf(store) = [i \in 1 .. ArrLen |-> 0]
  /\ PayloadOf(store) # ArrOf(store)

\* The run stands at the check of a retirement delocal!(name, expected).
AtRetire == Running /\ Top.k = "if" /\ Top.role = "delocal" /\ InBounds(Top.cond, Env, store)
\* The value of the retired variable is not the expected one.
Differs == Eval(Top.cond.l, Env, store) # Eval(Top.cond.r, Env, store)
RetireRaise == Block(<<PanicStmt(DelocalMsg)>>)

IsSupported(s) ==
  \/ s.k \in {"assignop", "block"}
  \/ IsRoutineCall(s)
  \/ IsRif(s) \/ IsRloop(s) \/ IsRetire(s)
IsExprStmt(s) == s.k \notin {"local", "item"}
Unsupported(stmts) ==
  {i \in 1 .. Len(stmts) : IsExprStmt(stmts[i]) /\ ~IsSupported(stmts[i])}

\* C16. Unsupported construct rejection: the reverse transformer accepts no
\* block holding an expression statement other than a compound assignment, a
\* call of a routine's entry point, a conditional, a loop, a retirement or a
\* nested block -- in particular none holding a call of a function that is
\* not an entry point of a routine -- and fails with UnsupportedConstruct
\* when such a statement is the block's only statement.
C16_UnsupportedConstruct ==
  (rout # Pending /\ Unsupported(tsrc.stmts) # {}) =>
    /\ ~IsOk(rout)
    /\ Len(tsrc.stmts) = 1 => rout = Err("UnsupportedConstruct")

\* The statements forward! put inside its two pairs of braces.
ForwardStmts(r) == r.out.stmts[1].stmts

\* C17 as stated. Forward call tagging: in the output of the forward
\* transformer every call of a routine's entry point is a call of the forward
\* entry point, whatever entry point the source statement named, routine
\* name and arguments unchanged.
C17_ForwardCallForced ==
  IsOk(fout) =>
    \A i \in 1 .. Len(tsrc.stmts) :
      IsRoutineCall(tsrc.stmts[i]) => ForwardStmts(fout)[i] = Directed(tsrc.stmts[i], "forward")

\* C17 amended. Forward call passthrough: in the output of the forward
\* transformer every call stands where it stood in the source and is the
\* call the source wrote: same routine, same entry point, same arguments.  A
\* call of a forward entry point is therefore a call of the forward entry
\* point in the output, and a call of a backwards entry point stays a call of
\* the backwards entry point.
C17_ForwardCallUnchanged ==
  IsOk(fout) =>
    /\ Len(ForwardStmts(fout)) = Len(tsrc.stmts)
    /\ \A i \in 1 .. Len(tsrc.stmts) :
         /\ tsrc.stmts[i].k = "call" => ForwardStmts(fout)[i] = tsrc.stmts[i]
         /\ ForwardStmts(fout)[i].k = "call" => tsrc.stmts[i].k = "call"

\* The forward transformer accepted a block that calls a forward and a
\* backwards entry point.
C17_Witness ==
  /\ IsOk(fout)
  /\ Len(tsrc.stmts) = 2
  /\ IsRoutineCall(tsrc.stmts[1]) /\ Direction(tsrc.stmts[1]) = "forward"
  /\ IsRoutineCall(tsrc.stmts[2]) /\ Direction(tsrc.stmts[2]) = "backwards"
  /\ ForwardStmts(fout) = tsrc.stmts

\* The alias guard of an assignment, as the transformers write it, lets the
\* assignment run in store s.
GuardPasses(a, s) ==
  /\ InBounds(a.left, param_env, s) /\ InBounds(a.right, param_env, s)
  /\ ~Eval(PtrEq(a.left, a.right), param_env, s)

\* C18. Guard sufficiency for assignment inversion: whenever the alias guard
\* of an assignment <target> <op>= <source> passes and the assignment runs,
\* running <target> <invert(op)>= <source> in the resulting state gives the
\* target its previous value again -- for every source the dialect allows,
\* a compound source that reads the target included; and so a routine made
\* of one assignment, run forward and then backwards without error, leaves
\* the target as it was.
C18_GuardSufficiency ==
  (Len(Code) = 1 /\ Code[1].k = "assignop" /\ Code[1].op \in InvertibleOps) =>
    LET a == Code[1]
        inv == AssignOp(a.left, Invert(a.op), a.right)
    IN /\ GuardPasses(a, s0) =>
            LET s1 == Assigned(a, param_env, s0)
            IN GuardPasses(inv, s1) =>
                 Assigned(inv, param_env, s1)[Addr(a.left, param_env, s0)]
                   = s0[Addr(a.left, param_env, s0)]
       /\ (calls = <<"forward", "backwards">> /\ status = "done") =>
            store[Addr(a.left, param_env, s0)] = s0[Addr(a.left, param_env, s0)]

\* Every statement of the block and of the blocks nested in it is a
\* declaration, a retirement, an invertible assignment or a nested block.
PlainNest(b) ==
  \A x \in SubBlocks(b) :
    \A i \in 1 .. Len(x.stmts) : x.stmts[i].k = "block" \/ PlainBlock(<<x.stmts[i]>>)
FaultFree(b) == \A x \in SubBlocks(b) : ~LifetimeFault(x.stmts)
\* The first k - 1 statements of the block give the transformer no reason to
\* fail.
CleanBefore(b, k) ==
  LET pre == Block(SubSeq(b.stmts, 1, k - 1))
  IN PlainNest(pre) /\ ~HasUnknownRetire(pre.stmts) /\ \A x \in SubBlocks(pre) \ {pre} : FaultFree(x)
\* What a transformer has to answer on block b when every block is checked
\* on its own.
ScopeVerdict(r, b) ==
  /\ \A k \in 1 .. Len(b.stmts) :
       (b.stmts[k].k = "block" /\ PlainBlock(b.stmts[k].stmts) /\ CleanBefore(b, k)) =>
         /\ HasUnknownRetire(b.stmts[k].stmts) => r = Err("UnknownLocal")
         /\ (~HasUnknownRetire(b.stmts[k].stmts) /\ LiveAtEnd(b.stmts[k].stmts) # {}) =>
              (r.err = "UnretiredLocals" /\ ReportsLive(r, b.stmts[k].stmts))
  /\ (PlainNest(b) /\ \A x \in SubBlocks(b) \ {b} : FaultFree(x)) =>
       /\ HasUnknownRetire(b.stmts) => r = Err("UnknownLocal")
       /\ (~HasUnknownRetire(b.stmts) /\ LiveAtEnd(b.stmts) # {}) =>
            (r.err = "UnretiredLocals" /\ ReportsLive(r, b.stmts))
       /\ ~LifetimeFault(b.stmts) => IsOk(r)

\* C19. Scope isolation: every block is checked with a live set of its own
\* that starts empty.  A retirement inside a nested block of a name declared
\* (and live) in the enclosing block fails with UnknownLocal; a local declared
\* inside a nested block and not retired there fails that block
\* (UnretiredLocals), whatever the enclosing block retires afterwards; and a
\* nested block without fault leaves the enclosing block's verdict what its
\* own declarations and retirements make it.  The bodies of conditionals
\* and loops are blocks checked the same way when the routine is built.
C19_ScopeIsolation ==
  /\ fout # Pending => ScopeVerdict(fout, tsrc)
  /\ rout # Pending => ScopeVerdict(rout, tsrc)
  /\ prog # Pending =>
       \A x \in BodyBlocks(tsrc) :
         (/\ PlainBlock(x.stmts) /\ LifetimeFault(x.stmts)
          /\ \A y \in BodyBlocks(tsrc) \ {x} : ~LifetimeFault(y.stmts)
          /\ IsOk(fout) /\ IsOk(rout)) =>
           prog.err = (IF HasUnknownRetire(x.stmts) THEN "UnknownLocal" ELSE "UnretiredLocals")

\* Both transformers refused, with UnknownLocal, a block that declares `i`,
\* retires it inside a nested block and retires it again after the block.
C19_Witness ==
  /\ tsrc = Block(<<Local("i", <<I0>>), Block(<<Delocal("i", Lit(1))>>), Delocal("i", Lit(1))>>)
  /\ fout = Err("UnknownLocal") /\ rout = Err("UnknownLocal")

\* How often a decision occurs in the trail of one call.
Count(t, d) == Cardinality({i \in 1 .. Len(t) : t[i] = d})
Decisions == {"then", "else", "iter"}

\* C20. Backward execution retraces forward control flow: when the forward
\* entry has completed (so without GuardViolation) and the backward entry
\* runs on the resulting state, the backward run takes the reverse of the
\* same branch of every conditional as often as the forward run took the
\* branch, enters the body of the reverse loops exactly as many times as the
\* forward run entered the loop bodies, and raises no GuardViolation.
C20_Retrace ==
  (calls = <<"forward", "backwards">> /\ Len(trail[1]) < MaxTrail) =>
    /\ status # "GuardViolation"
    /\ \A d \in Decisions : Count(trail[2], d) <= Count(trail[1], d)
    /\ status = "done" => \A d \in Decisions : Count(trail[2], d) = Count(trail[1], d)

\* The caller's variables in a store.
CallerVars(s) == SubSeq(s, 1, NParams)

\* C21. Run-time errors are fatal to the whole call chain: the step that
\* raises AliasViolation, RetireMismatch or GuardViolation (or the panic of
\* an index outside a slice) drops every statement still to run, those of the
\* routine at work and those of every routine it was called from, and leaves
\* the caller's variables with the values written before the error; from a
\* state with an error no step is taken at all (the error is not caught, no
\* entry point runs again).  In a routine that writes `a`, calls a routine
\* on `a` and then writes `b`, an error of the called routine ends the call
\* with `a` written and `b` untouched when run forward, and with `b`
\* written and `a` untouched when run backwards.
C21_FatalErrors ==
  [][
      /\ status \notin Errors
      /\ status' \in Errors =>
           /\ status = "running"
           /\ stack' = <<>> /\ envs' = <<>>
           /\ store' = CallerVars(store)
           /\ UNCHANGED <<calls, prog, phase>>
      /\ (src \in Chain /\ status' \in Errors /\ Len(calls') = 1) =>
           IF calls' = <<"forward">>
             THEN store'[1] = (s0[1] + 1) % Modulus /\ store'[2] = s0[2]
             ELSE store'[2] = (s0[2] + Modulus - 1) % Modulus /\ store'[1] = s0[1]
    ]_vars

\* The routine called on `a` ended in GuardViolation while the calling
\* routine still had `b += 1` to run: `a` keeps the value written before
\* the call, `b` was never written.
C21_Witness ==
  /\ src \in Chain /\ calls = <<"forward">>
  /\ status = "GuardViolation"
  /\ store[1] # s0[1] /\ store[2] = s0[2]
  /\ stack = <<>>

\* The statement of the block at which a visitor stops: the first k for which
\* the first k statements make it fail; 0 when it gets through all of them
\* (it can then still fail at the end of the block, on the locals left).
FFailAt(stmts) ==
  LET bad == {k \in 1 .. Len(stmts) : F_fold_stmts(SubSeq(stmts, 1, k), <<>>, <<>>).err # "none"}
  IN IF bad = {} THEN 0 ELSE CHOOSE k \in bad : \A j \in bad : k <= j
RFailAt(stmts) ==
  LET bad == {k \in 1 .. Len(stmts) : R_fold_stmts(SubSeq(stmts, 1, k), <<>>, <<>>).err # "none"}
  IN IF bad = {} THEN 0 ELSE CHOOSE k \in bad : \A j \in bad : k <= j
LifetimeErrors == {"UnknownLocal", "UnretiredLocals"}
\* The lifetime verdict in a transformer's answer: the lifetime error and the
\* names it reports, or none.
LifetimeVerdictOf(r) ==
  IF r.err \in LifetimeErrors THEN [err |-> r.err, names |-> r.names] ELSE [err |-> "none", names |-> <<>>]

\* C22 as stated. Lifetime verdict equivalence: for every block the forward
\* and the reverse transformer give the same lifetime verdict -- both without
\* lifetime error, or both the same lifetime error with the same names,
\* stopping at the same statement.
C22_SameVerdict ==
  (fout # Pending /\ rout # Pending) =>
    /\ LifetimeVerdictOf(fout) = LifetimeVerdictOf(rout)
    /\ fout.err \in LifetimeErrors => FFailAt(tsrc.stmts) = RFailAt(tsrc.stmts)

\* C22 amended. Both visitors treat `let` as declaration and delocal! as
\* retirement of the statements as written, in the order written.  So: a
\* block the reverse transformer accepts the forward transformer accepts; a
\* lifetime error of the reverse transformer is the forward transformer's
\* answer too, same kind, same names, same statement; a lifetime error of the
\* forward transformer is the reverse transformer's answer too unless the
\* reverse transformer has stopped for another reason (an operator without
\* inverse, an unsupported expression) at that statement or before it, or in
\* a block nested in it; and on a block in which nothing but the lifetime
\* check can fail the two answers are equal.
C22_LifetimeVerdictEquivalence ==
  (fout # Pending /\ rout # Pending) =>
    LET f == FFailAt(tsrc.stmts)
        r == RFailAt(tsrc.stmts)
    IN /\ IsOk(rout) => IsOk(fout)
       /\ rout.err \in LifetimeErrors => (fout = rout /\ f = r)
       /\ fout.err \in LifetimeErrors =>
            \/ rout = fout /\ f = r
            \/ /\ rout.err \notin LifetimeErrors \cup {"none"}
               /\ r # 0 /\ (f = 0 \/ r <= f)
       /\ PlainNest(tsrc) =>
            (fout.err = rout.err /\ fout.names = rout.names /\ f = r)

\* Both transformers stopped with UnknownLocal at the third statement of a
\* block whose first two statements declare and retire the name.
C22_Witness ==
  /\ fout = Err("UnknownLocal") /\ rout = fout
  /\ Len(tsrc.stmts) = 3
  /\ IsDecl(tsrc.stmts[1]) /\ IsRetire(tsrc.stmts[2])
  /\ FFailAt(tsrc.stmts) = 3 /\ RFailAt(tsrc.stmts) = 3

\* Declarations and retirements as they stand in a backward program: a
\* declaration is `let mut n = ..` (or a `let` statement), a retirement the
\* call of delocal! or, once expanded, its check `if n != .. { panic }`.
OutDeclares(s, n) ==
  \/ s.k = "let" /\ s.name.n = n
  \/ s.k = "local" /\ s.pat = n
OutRetires(s, n) ==
  \/ s.k = "macro" /\ s.path[Len(s.path)] = "delocal" /\ s.tokens[1].n = n
  \/ s.k = "if" /\ s.role = "delocal" /\ s.cond.l.n = n
OutNames(stmts) ==
  {stmts[i].name.n : i \in {j \in 1 .. Len(stmts) : stmts[j].k = "let"}}
  \cup {stmts[i].pat : i \in {j \in 1 .. Len(stmts) : stmts[j].k = "local"}}
  \cup {stmts[i].tokens[1].n : i \in {j \in 1 .. Len(stmts) :
          stmts[j].k = "macro" /\ stmts[j].path[Len(stmts[j].path)] = "delocal"}}
  \cup {stmts[i].cond.l.n : i \in {j \in 1 .. Len(stmts) :
          stmts[j].k = "if" /\ stmts[j].role = "delocal"}}
\* Among the first k statements: declarations of n not yet retired.
OutLive(stmts, n, k) ==
  Cardinality({i \in 1 .. k : OutDeclares(stmts[i], n)})
  - Cardinality({i \in 1 .. k : OutRetires(stmts[i], n)})
\* The statement list is lifetime-valid.
OutValid(stmts) ==
  \A n \in OutNames(stmts) :
    /\ \A k \in 1 .. Len(stmts) :
         /\ OutLive(stmts, n, k) >= 0
         /\ OutDeclares(stmts[k], n) =>
              \E j \in (k + 1) .. Len(stmts) : OutRetires(stmts[j], n)
    /\ OutLive(stmts, n, Len(stmts)) = 0
\* The statement lists of a program: its own and those of the blocks,
\* branches and loop bodies in it, at any depth.
Inner(s) ==
  CASE s.k = "block" -> {s.stmts}
    [] s.k = "if" -> {s.then.stmts} \cup {s.els[i].stmts : i \in 1 .. Len(s.els)}
    [] s.k = "while" -> {s.body.stmts}
    [] OTHER -> {}
RECURSIVE StmtLists(_)
StmtLists(stmts) ==
  {stmts} \cup UNION {UNION {StmtLists(l) : l \in Inner(stmts[i])} : i \in 1 .. Len(stmts)}

\* C23. The backward program is lifetime-valid: when the reverse transformer
\* accepts a block, in every block of its output each declaration is
\* followed, later in the same block, by a retirement of the same name, no
\* retirement stands where its name is not live, and no local is live at the
\* end of the block; the same holds in every block, branch and loop body of
\* the backward function of a routine that rfn! builds.
C23_BackwardLifetimeValid ==
  /\ IsOk(rout) => \A l \in StmtLists(<<rout.out>>) : OutValid(l)
  /\ IsOk(prog) => \A l \in StmtLists(prog.out.backwards) : OutValid(l)

\* A routine was built from a block that declares `j`, holds a nested block
\* declaring and retiring `i`, and retires `j`: the backward program
\* declares `j` first and retires it last, the nested block likewise for `i`.
C23_Witness ==
  /\ IsOk(rout) /\ IsOk(prog)
  /\ Len(tsrc.stmts) = 3
  /\ IsDecl(tsrc.stmts[1]) /\ IsRetire(tsrc.stmts[3])
  /\ tsrc.stmts[2].k = "block" /\ IsDecl(tsrc.stmts[2].stmts[1])
  /\ ReversedStmts(rout)[1].k = "let"
  /\ OutRetires(ReversedStmts(rout)[3], "j")

\* C24. Converse round trip: for a routine both transformers accept,
\* whenever the backward entry has completed without a run-time error and
\* the forward entry is then run on the resulting state, the forward entry
\* ends without error and every parameter has the value it had before the
\* backward call -- a routine whose body calls the backwards entry point of
\* another routine included.
C24_ConverseRoundTrip ==
  (phase = "compiled" /\ calls = <<"backwards", "forward">> /\ Finished)
    => (status = "done" /\ store = s0)

\* The input with nothing but an alias guard put immediately ahead of each
\* compound assignment, at every depth.
RECURSIVE GuardedStmts(_)
GuardedStmts(S) ==
  IF S = <<>>
    THEN <<>>
    ELSE LET h == Head(S)
         IN (CASE h.k = "assignop" -> <<alias_cmp(h.left, h.right), h>>
               [] h.k = "block" -> <<Block(GuardedStmts(h.stmts))>>
               [] OTHER -> <<h>>)
            \o GuardedStmts(Tail(S))

\* C25 as stated. Forward transform frame: the statements of the forward
\* transformer's output are those of its input, in number, order, nesting,
\* operators and operands, with an alias guard immediately ahead of each
\* compound assignment and no other difference.
C25_GuardOnly ==
  IsOk(fout) => ForwardStmts(fout) = GuardedStmts(tsrc.stmts)

\* o is what the forward transformer makes of the source statement s.
RECURSIVE FrameOf(_, _)
RECURSIVE FrameSeq(_, _)
FrameOf(s, o) ==
  CASE s.k = "assignop" ->
         /\ o.k = "block" /\ Len(o.stmts) = 3
         /\ o.stmts[1] = Macro(<<"stringify">>, <<s.left, Tok(s.op), s.right>>)
         /\ o.stmts[2] = alias_cmp(s.left, s.right)
         /\ o.stmts[3] = s
    [] s.k = "block" -> o.k = "block" /\ FrameSeq(s.stmts, o.stmts)
    [] OTHER -> o = s
FrameSeq(S, O) ==
  /\ Len(O) = Len(S)
  /\ \A i \in 1 .. Len(S) : FrameOf(S[i], O[i])

\* C25 amended. Forward transform frame: the output of the forward
\* transformer is the input block inside one more pair of braces, with as
\* many statements in the same order in every block at every depth; a
\* declaration, a retirement, a call, a conditional, a loop and any other
\* statement stand unchanged; a compound assignment has become a block of
\* three statements -- stringify! of target, operator and source, the alias
\* guard on target and source, and immediately after the guard the
\* assignment itself, operator and operands unchanged.
C25_ForwardFrame ==
  IsOk(fout) =>
    /\ fout.out.k = "block" /\ Len(fout.out.stmts) = 1 /\ fout.out.stmts[1].k = "block"
    /\ FrameSeq(tsrc.stmts, ForwardStmts(fout))

\* The forward transformer accepted `let i = 0; <assignment>; delocal!(i, 1)`:
\* declaration and retirement stand as written, the assignment follows its
\* guard inside a block.
C25_Witness ==
  /\ IsOk(fout)
  /\ Len(tsrc.stmts) = 3
  /\ IsDecl(tsrc.stmts[1]) /\ tsrc.stmts[2].k = "assignop" /\ IsRetire(tsrc.stmts[3])
  /\ ForwardStmts(fout)[1] = tsrc.stmts[1]
  /\ ForwardStmts(fout)[3] = tsrc.stmts[3]
  /\ ForwardStmts(fout)[2].stmts[3] = tsrc.stmts[2]

====
